---------------------------- MODULE Spec2Model ----------------------------
(***************************************************************************)
(* valleyx: valley-floor extraction from a DEM and a stream network.       *)
(*                                                                         *)
(* The module models these parts of the pipeline as state machines over one *)
(* set of variables:                                                       *)
(*   SpecFlowline  flowline orientation repair (validate_flowline)         *)
(*   SpecRecenter  cross-section profile recentering                       *)
(*   SpecProfile   cross-section profile filters                           *)
(*   SpecReach     reach labelling of the flow-path raster                 *)
(*   Spec          floor labelling: the masks and the post-filters         *)
(*   SpecFlood     floor labelling: the flood thresholds of the wall points *)
(*   SpecTerrain   temp files of two TerrainAnalyzer instances             *)
(*   SpecExtract   the working directory of extract_valleys                *)
(*   SpecTrace     trace_flowpath, one loop pass per step                  *)
(*   SpecWall      wall points of a profile, both methods                  *)
(*   SpecSubbasin  relabelling of the watershed raster                     *)
(*   SpecDem       invert_dem                                              *)
(*   SpecShortReach, SpecCenterline  reach labelling on short segments,    *)
(*                 and with any boundary nodes of the Voronoi graph        *)
(*   SpecPreprocess  preprocess_profiles, group by group                   *)
(*   SpecLabel     the codes of the labelled floor raster                  *)
(*   SpecRelabel   relabel_flowpaths by pour points                        *)
(*   SpecFoundation  the low-slope foundation mask                         *)
(*   SpecRefine    the boundary-point refinement loop of polygon_centerline*)
(* A specification leaves the variables of the other parts at their idle   *)
(* values.                                                                 *)
(***************************************************************************)
EXTENDS Integers, Sequences, FiniteSets, TLC

VARIABLES
    \* ---- flowline orientation (valleyx/utils/flowpaths.py)
    flowline,        \* the LineString: a sequence of vertex locations
    flow_acc,        \* the flow accumulation sampled at each location
    fl_pc,           \* "idle" | "input" | "returned" | "raised"
    fl_out,          \* what validate_flowline returned
    \* ---- profile preprocessing (valleyx/profile/preprocess_profile.py)
    profile,         \* one (streamID, xsID) group: rows sorted by alpha
    profile_pos,     \* a profile with the same alpha >= 0 rows as profile
    profile_neg,     \* a profile with the same alpha < 0 rows as profile
    recentered_once, \* the profile after the first _recenter_on_stream
    pf_cfg,          \* min_hand_jump, ratio, min_peak_prominence
    pf_pc,           \* position in preprocess_profiles
    \* ---- reach labelling (valleyx/reach_delineation.py)
    segments,        \* per segment ID: its flow-path cells and break points
    rc_todo,         \* the segment IDs _compute_reaches has still to visit
    all_flowpath_cells, \* the rows gathered so far: cell -> reach_id
    new_fp,          \* the flow-path raster: cell -> label
    rc_pc,           \* "idle" | "compute" | "relabel" | "done"
    bn,              \* per segment ID: the boundary nodes of its Voronoi graph
    centerlines,     \* per segment ID visited: the centerline it was split on
    \* ---- floor labelling (valleyx/floor/floor.py, flood_extent/flood.py)
    basin,           \* flow_paths, subbasins, hillslopes, hand, slope rasters
    foundation_floor, \* the mask foundation() returned
    boundary_pts,    \* None, or the wall points: rows streamID, hillslope, hand
    cfg,             \* min_points, percentile, buffer, default_threshold, ...
    thresholds,      \* the flood threshold table (a sequence of rows)
    flooded,         \* the mask apply_flood_thresholds returned
    flood_extent_floor, \* the mask flood() returned
    combined,        \* the floor mask label_floors returns
    lf_pc,           \* position in label_floors
    \* ---- temp files (valleyx/terrain_analyzer.py, valleyx/core.py)
    wd_exists,       \* the working directory exists
    wd_files,        \* the files in the working directory
    run,             \* per instance: prefix, operation, position
    \* ---- wall points (floor/flood_extent/classify_profile_max_ascent.py, path.py)
    fdir,            \* the direction raster: cell -> direction code
    slope,           \* the slope raster: cell -> slope
    num_cells,       \* the path length asked for
    slope_threshold, \* the slope threshold of the classification
    xs_profile,      \* one profile: rows alpha, bp, wallpoint, sorted by alpha
    classified,      \* the profile a classification returned
    tr_path,         \* the path list of _trace_flowpath_numba
    tr_count,        \* its count
    wl_pc,           \* "idle" | "trace" | "returned" | "profile" | method name
    \* ---- subbasin relabelling (valleyx/terrain_analyzer.py)
    pour_index,      \* pour_points.index, the stream IDs in pour point order
    watershed,       \* the raster wbt.watershed wrote, cell -> twice its value
    sb_out,          \* the raster subbasins() returns, cell -> twice its value
    sb_pc,           \* "idle" | "loaded" | "returned"
    \* ---- invert_dem (floor/flood_extent/classify_profile_max_ascent.py)
    dem_in,          \* the dem given to invert_dem, cell -> elevation
    inverted_dem,    \* invert_dem(dem)
    inverted_twice,  \* invert_dem(inverted_dem)
    dm_pc,           \* "idle" | "dem" | "inverted" | "twice"
    \* ---- preprocess_profiles
    pp_groups,       \* the cross sections, one profile per (streamID, xsID) group
    pp_cfg,          \* min_hand_jump, ratio, min_distance, min_peak_prominence
    pp_next,         \* position of the loop over the groups
    processed_dfs,   \* the profiles kept so far
    pp_out,          \* the frame preprocess_profiles returns
    pp_pc,           \* loop, returned or raised
    \* ---- the categorical floor raster
    lb_floors,       \* the union of the hillslope flood floors, a mask
    lb_foundation,   \* the foundation mask
    lb_flow_path,    \* the cells with flow_path > 0
    lb_codes,        \* the categorical raster, cell -> 0..3
    lb_pc,           \* masks or labelled
    \* ---- foundation()
    fd_thresholded,  \* the cells of the regions whose median slope is at most apst
    fd_steep,        \* the cells with smoothed slope above apst
    fd_flowpaths,    \* the cells with flowpaths > 0
    fd_base,         \* the mask foundation() returns
    fd_pc,           \* regions or returned
    \* ---- polygon_centerline's refinement loop
    cp_initial,      \* the num_points argument
    cp_num_points,   \* num_points of the current pass
    cp_passes,       \* passes of the loop made so far
    cp_source,       \* whether a source is given
    cp_target,       \* whether a target is given
    cp_pc            \* loop, or done once the loop is left

flVars == <<flowline, flow_acc, fl_pc, fl_out>>
pfVars == <<profile, profile_pos, profile_neg, recentered_once, pf_cfg, pf_pc>>
rcVars == <<segments, rc_todo, all_flowpath_cells, new_fp, rc_pc, bn, centerlines>>
lfVars == <<basin, foundation_floor, boundary_pts, cfg, thresholds, flooded,
            flood_extent_floor, combined, lf_pc>>
tfVars == <<wd_exists, wd_files, run>>
wlVars == <<fdir, slope, num_cells, slope_threshold, xs_profile, classified,
            tr_path, tr_count, wl_pc>>
sbVars == <<pour_index, watershed, sb_out, sb_pc>>
dmVars == <<dem_in, inverted_dem, inverted_twice, dm_pc>>
ppVars == <<pp_groups, pp_cfg, pp_next, processed_dfs, pp_out, pp_pc>>
lbVars == <<lb_floors, lb_foundation, lb_flow_path, lb_codes, lb_pc>>
fdVars == <<fd_thresholded, fd_steep, fd_flowpaths, fd_base, fd_pc>>
cpVars == <<cp_initial, cp_num_points, cp_passes, cp_source, cp_target, cp_pc>>

vars == <<flowline, flow_acc, fl_pc, fl_out,
          profile, profile_pos, profile_neg, recentered_once, pf_cfg, pf_pc,
          segments, rc_todo, all_flowpath_cells, new_fp, rc_pc, bn, centerlines,
          basin, foundation_floor, boundary_pts, cfg, thresholds, flooded,
          flood_extent_floor, combined, lf_pc,
          wd_exists, wd_files, run,
          fdir, slope, num_cells, slope_threshold, xs_profile, classified,
          tr_path, tr_count, wl_pc,
          pour_index, watershed, sb_out, sb_pc,
          dem_in, inverted_dem, inverted_twice, dm_pc,
          pp_groups, pp_cfg, pp_next, processed_dfs, pp_out, pp_pc,
          lb_floors, lb_foundation, lb_flow_path, lb_codes, lb_pc,
          fd_thresholded, fd_steep, fd_flowpaths, fd_base, fd_pc,
          cp_initial, cp_num_points, cp_passes, cp_source, cp_target, cp_pc>>

\* What the actions of one part leave unchanged: the variables of the others.
notFl == <<pfVars, rcVars, lfVars, tfVars, wlVars, sbVars, dmVars, ppVars, lbVars, fdVars, cpVars>>
notPf == <<flVars, rcVars, lfVars, tfVars, wlVars, sbVars, dmVars, ppVars, lbVars, fdVars, cpVars>>
notRc == <<flVars, pfVars, lfVars, tfVars, wlVars, sbVars, dmVars, ppVars, lbVars, fdVars, cpVars>>
notLf == <<flVars, pfVars, rcVars, tfVars, wlVars, sbVars, dmVars, ppVars, lbVars, fdVars, cpVars>>
notTf == <<flVars, pfVars, rcVars, lfVars, wlVars, sbVars, dmVars, ppVars, lbVars, fdVars, cpVars>>
notWl == <<flVars, pfVars, rcVars, lfVars, tfVars, sbVars, dmVars, ppVars, lbVars, fdVars, cpVars>>
notSb == <<flVars, pfVars, rcVars, lfVars, tfVars, wlVars, dmVars, ppVars, lbVars, fdVars, cpVars>>
notDm == <<flVars, pfVars, rcVars, lfVars, tfVars, wlVars, sbVars, ppVars, lbVars, fdVars, cpVars>>
notPp == <<flVars, pfVars, rcVars, lfVars, tfVars, wlVars, sbVars, dmVars, lbVars, fdVars, cpVars>>
notLb == <<flVars, pfVars, rcVars, lfVars, tfVars, wlVars, sbVars, dmVars, ppVars, fdVars, cpVars>>
notFd == <<flVars, pfVars, rcVars, lfVars, tfVars, wlVars, sbVars, dmVars, ppVars, lbVars, cpVars>>
notCp == <<flVars, pfVars, rcVars, lfVars, tfVars, wlVars, sbVars, dmVars, ppVars, lbVars, fdVars>>

\* An optional value: None, or Some(v).  Val(o) is the value of Some(v).
None == <<>>
Some(v) == <<v>>
Val(o) == o[1]

(***************************************************************************)
(* Generic helpers on sequences.                                           *)
(***************************************************************************)
Reverse(s) == [i \in 1..Len(s) |-> s[Len(s) + 1 - i]]

SeqsUpTo(S, lo, hi) == UNION {[1..n -> S] : n \in lo..hi}

Abs(x) == IF x < 0 THEN -x ELSE x

SetMin(S) == CHOOSE x \in S : \A y \in S : x <= y

SetMax(S) == CHOOSE x \in S : \A y \in S : x >= y

\* The rows of s at the positions where keep holds, in order.
SelectIdx(s, keep(_)) ==
    LET F[i \in 0..Len(s)] ==
            IF i = 0 THEN <<>>
            ELSE IF keep(i) THEN Append(F[i - 1], s[i]) ELSE F[i - 1]
    IN  F[Len(s)]

\* The first n rows of s (iloc[0:n]).
Head_n(s, n) == SubSeq(s, 1, n)

\* s sorted ascending by key, rows of equal key in their order in s (a stable
\* sort); keys are integers.
SortBy(s, key(_)) ==
    LET Rank(i) == Cardinality({j \in 1..Len(s) :
                        \/ key(s[j]) < key(s[i])
                        \/ key(s[j]) = key(s[i]) /\ j < i})
    IN  [k \in 1..Len(s) |-> s[CHOOSE i \in 1..Len(s) : Rank(i) = k - 1]]

(***************************************************************************)
(* Flowline orientation: validate_flowline, applied to every geometry by   *)
(* prep_flowlines and align_flowlines.                                     *)
(***************************************************************************)
NumLocations == 3      \* distinct vertex locations a flowline may visit
MaxAcc == 2            \* flow accumulation values are 0..MaxAcc
MaxVerts == 3          \* a flowline has 2..MaxVerts vertices

Locations == 1..NumLocations

\* (variant: the two values sorted in descending order)
ArgsortPairDescending(fa) == IF fa[2] > fa[1] THEN <<2, 1>> ELSE <<1, 2>>

\* numpy argsort of the two sampled values <<fa[1], fa[2]>>: the positions in
\* ascending order of value, the first position first on a tie.
ArgsortPair(fa) == IF fa[2] < fa[1] THEN <<2, 1>> ELSE <<1, 2>>

\* get_inlet_and_outlet_points: the two end points ordered by the flow
\* accumulation sampled at them.
get_inlet_and_outlet_points(line, acc) ==
    LET coords == <<line[1], line[Len(line)]>>
        fa     == <<acc[coords[1]], acc[coords[2]]>>
        order  == ArgsortPair(fa)
    IN  <<coords[order[1]], coords[order[2]]>>

\* flowline_flows_downstream: shapely.equals compares locations.
flowline_flows_downstream(line, acc) ==
    LET se == get_inlet_and_outlet_points(line, acc)
    IN  se[1] = line[1] /\ se[2] = line[Len(line)]

\* validate_flowline: the input, the reversed input, or ValueError.
validate_flowline(line, acc) ==
    IF flowline_flows_downstream(line, acc)
    THEN [pc |-> "returned", out |-> line]
    ELSE LET new_flowline == Reverse(line)
         IN  IF flowline_flows_downstream(new_flowline, acc)
             THEN [pc |-> "returned", out |-> new_flowline]
             ELSE [pc |-> "raised", out |-> <<>>]

FlowlineIdle ==
    /\ flowline = <<>>
    /\ flow_acc = <<>>
    /\ fl_pc = "idle"
    /\ fl_out = <<>>

FlowlineInit ==
    /\ flowline \in SeqsUpTo(Locations, 2, MaxVerts)
    /\ flow_acc \in [Locations -> 0..MaxAcc]
    /\ fl_pc = "input"
    /\ fl_out = <<>>

ValidateFlowline ==
    /\ fl_pc = "input"
    /\ LET r == validate_flowline(flowline, flow_acc)
       IN  /\ fl_pc' = r.pc
           /\ fl_out' = r.out
    /\ UNCHANGED <<flowline, flow_acc>>
    /\ UNCHANGED notFl

(***************************************************************************)
(* Profile preprocessing.  A profile is the sequence of the rows of one    *)
(* (streamID, xsID) group in ascending alpha; a row carries its pointID,   *)
(* alpha, flow_path (TRUE when the flow_path value equals the streamID),   *)
(* hillslope, conditioned_dem and hand.                                    *)
(***************************************************************************)
Row(id, a, fp, hs, dem, h) ==
    [pointID |-> id, alpha |-> a, flow_path |-> fp, hillslope |-> hs,
     conditioned_dem |-> dem, hand |-> h]

AlphaOf(r) == r.alpha

WithAlpha(s, f(_)) == [i \in 1..Len(s) |-> [s[i] EXCEPT !.alpha = f(s[i].alpha)]]

Negate(a) == -a

\* split_profile (duplicate_center = False): the rows with alpha >= 0, and the
\* rows with alpha < 0 with alpha made positive and sorted outward.
split_profile(p) ==
    LET pos == SelectIdx(p, LAMBDA i : p[i].alpha >= 0)
        neg == SelectIdx(p, LAMBDA i : p[i].alpha < 0)
    IN  [pos |-> pos, neg |-> SortBy(WithAlpha(neg, Abs), AlphaOf)]

\* combine_profile: negate the negative side back, concatenate, sort on alpha.
combine_profile(pos, neg) == SortBy(pos \o WithAlpha(neg, Negate), AlphaOf)

\* ---- _recenter_on_stream --------------------------------------------------
\* Case 1, several stream points: sort_values(by = [hand, alpha], key = abs on
\* alpha) is a lexicographic stable sort; the first row gives the calibration.
StreamCalibration(p) ==
    LET points == SelectIdx(p, LAMBDA i : p[i].flow_path)
        Before(a, b) ==
            \/ points[a].hand < points[b].hand
            \/ /\ points[a].hand = points[b].hand
               /\ \/ Abs(points[a].alpha) < Abs(points[b].alpha)
                  \/ Abs(points[a].alpha) = Abs(points[b].alpha) /\ a < b
        first == CHOOSE a \in 1..Len(points) :
                     \A b \in 1..Len(points) : b # a => Before(a, b)
    IN  IF Len(points) = 1 THEN points[1].alpha ELSE points[first].alpha

\* Case 2: the rows where hillslope differs from the previous row (shift(),
\* the first row always differs) or from the next row (shift(-1), the last row
\* always differs).
HillslopeChanges(p) ==
    {i \in 1..Len(p) :
        \/ i = 1
        \/ i = Len(p)
        \/ p[i - 1].hillslope # p[i].hillslope
        \/ p[i + 1].hillslope # p[i].hillslope}

\* sort_values(key = abs).iloc[0]: an alpha of smallest magnitude among the
\* change points; the sort is not stable, so either of two equal magnitudes
\* may come first.
ChangeCalibrations(p) ==
    LET alphas == {p[i].alpha : i \in HillslopeChanges(p)}
    IN  {a \in alphas : \A b \in alphas : Abs(a) <= Abs(b)}

\* The calibration_alpha values _recenter_on_stream may find: None when
\* hs_changes is empty.
CalibrationAlphas(p) ==
    IF \E i \in 1..Len(p) : p[i].flow_path
    THEN {Some(StreamCalibration(p))}
    ELSE IF HillslopeChanges(p) = {} THEN {None}
         ELSE {Some(a) : a \in ChangeCalibrations(p)}

\* (variant: the calibration added instead of subtracted)
ShiftAlphaAdded(p, calibration_alpha) ==
    [i \in 1..Len(p) |-> [p[i] EXCEPT !.alpha = p[i].alpha + calibration_alpha]]

\* profile['alpha'] = profile['alpha'] - calibration_alpha
ShiftAlpha(p, calibration_alpha) ==
    [i \in 1..Len(p) |-> [p[i] EXCEPT !.alpha = p[i].alpha - calibration_alpha]]

_recenter_on_stream(p, calibration_alpha) ==
    IF calibration_alpha = None THEN p ELSE ShiftAlpha(p, Val(calibration_alpha))

\* ---- _filter_ridge_crossing ----------------------------------------------
\* ratio_series > ratio at row i of one side.  The first row has
\* 0.001 / 0.001 = 1.  A zero elevation change divides by zero: inf when the
\* hand changes (above any ratio), nan when it does not (above none).  ratio
\* is the fraction ratio.n / ratio.d.
RatioExceeds(side, i, ratio) ==
    IF i = 1 THEN ratio.d > ratio.n
    ELSE LET dh == Abs(side[i].hand - side[i - 1].hand)
             de == Abs(side[i].conditioned_dem - side[i - 1].conditioned_dem)
         IN  IF de = 0 THEN dh # 0 ELSE dh * ratio.d > ratio.n * de

\* condition.argmax(): the 0-based position of the first True, 0 when there
\* is none.
RidgePosition(side, ratio, min_jump) ==
    LET hit == {i \in 1..Len(side) :
                   RatioExceeds(side, i, ratio) /\ side[i].hand > min_jump}
    IN  IF hit = {} THEN 0 ELSE SetMin(hit) - 1

\* _filter_ratio on one side: hand.index[:position], the whole index when
\* position is 0.
_filter_ratio(side, ratio, min_jump) ==
    LET position == RidgePosition(side, ratio, min_jump)
    IN  IF position # 0 THEN Head_n(side, position) ELSE side

\* argmax of an empty series raises ValueError.
RidgeRaises(p) == split_profile(p).pos = <<>> \/ split_profile(p).neg = <<>>

\* (variant: the negative side cut at the position found on the positive side)
FilterRidgeCrossingShared(p, min_hand_jump, ratio) ==
    LET sp == split_profile(p)
        position == RidgePosition(sp.pos, ratio, min_hand_jump)
    IN  combine_profile(_filter_ratio(sp.pos, ratio, min_hand_jump),
                        IF position # 0 /\ position < Len(sp.neg)
                        THEN Head_n(sp.neg, position) ELSE sp.neg)

_filter_ridge_crossing(p, min_hand_jump, ratio) ==
    LET sp == split_profile(p)
    IN  combine_profile(_filter_ratio(sp.pos, ratio, min_hand_jump),
                        _filter_ratio(sp.neg, ratio, min_hand_jump))

\* ---- _filter_by_peaks -----------------------------------------------------
\* scipy.signal.find_peaks: a peak is a sample, or the middle of a flat run,
\* strictly above both neighbours; the first and last samples are never peaks.
\* x is the elevation sequence; the result is the set of 1-based positions.
PlateauEnd(x, i) ==
    LET same == {j \in i..Len(x) : \A k \in i..j : x[k] = x[i]}
    IN  SetMax(same)

LocalMaxima(x) ==
    {(i + PlateauEnd(x, i)) \div 2 :
        i \in {k \in 2..(Len(x) - 1) :
                  /\ x[k - 1] < x[k]
                  /\ PlateauEnd(x, k) < Len(x)
                  /\ x[PlateauEnd(x, k) + 1] < x[k]}}

\* scipy.signal.peak_prominences (no wlen): the peak height above the higher
\* of the two lowest points between the peak and the next higher sample (or the
\* signal end) on each side.
Prominence(x, peak) ==
    LET higherL == {k \in 1..peak : x[k] > x[peak]}
        higherR == {k \in peak..Len(x) : x[k] > x[peak]}
        lo == IF higherL = {} THEN 1 ELSE SetMax(higherL) + 1
        hi == IF higherR = {} THEN Len(x) ELSE SetMin(higherR) - 1
        left_min  == SetMin({x[k] : k \in lo..peak})
        right_min == SetMin({x[k] : k \in peak..hi})
    IN  x[peak] - (IF left_min > right_min THEN left_min ELSE right_min)

find_peaks(x, prominence) ==
    {pk \in LocalMaxima(x) : Prominence(x, pk) >= prominence}

\* find_first_peak: the rows before the first peak (iloc[0:first_peak], the
\* peak's 0-based position), or the side unchanged.
find_first_peak(side, min_prominence) ==
    LET x == [i \in 1..Len(side) |-> side[i].conditioned_dem]
        peaks == find_peaks(x, min_prominence)
    IN  IF peaks # {} THEN Head_n(side, SetMin(peaks) - 1) ELSE side

_filter_by_peaks(p, min_prominence) ==
    LET sp == split_profile(p)
        pos == IF sp.pos # <<>> THEN find_first_peak(sp.pos, min_prominence)
               ELSE sp.pos
        neg == IF sp.neg # <<>> THEN find_first_peak(sp.neg, min_prominence)
               ELSE sp.neg
    IN  combine_profile(pos, neg)

\* ---- _ensure_no_gaps ------------------------------------------------------
\* profile['alpha'].diff().mode().iloc[0]: the most frequent difference of
\* successive alphas over the whole profile, the smallest on a tie.
ModeOfDiffs(p) ==
    LET diffs == [i \in 1..(Len(p) - 1) |-> p[i + 1].alpha - p[i].alpha]
        Count(d) == Cardinality({i \in 1..Len(diffs) : diffs[i] = d})
        values == {diffs[i] : i \in 1..Len(diffs)}
        most == {d \in values : \A e \in values : Count(d) >= Count(e)}
    IN  SetMin(most)

\* _filter_max_increment on one side: when some difference of successive
\* alphas exceeds max_increment, the rows before the position of
\* exceed.idxmin(), the smallest exceeding difference (the first on a tie).
GapPosition(side, max_increment) ==
    LET diff == [i \in 1..Len(side) |->
                    IF i = 1 THEN 0 ELSE side[i].alpha - side[i - 1].alpha]
        exceed == {i \in 1..Len(side) : diff[i] > max_increment}
        least == {i \in exceed : \A k \in exceed : diff[i] <= diff[k]}
    IN  IF exceed = {} THEN Len(side) ELSE SetMin(least) - 1

_filter_max_increment(side, max_increment) ==
    Head_n(side, GapPosition(side, max_increment))

\* max_increment: 3 times the modal spacing of the whole profile.
MaxIncrement(p) == ModeOfDiffs(p) * 3

_ensure_no_gaps(p) ==
    LET max_increment == MaxIncrement(p)
        sp == split_profile(p)
    IN  combine_profile(_filter_max_increment(sp.pos, max_increment),
                        _filter_max_increment(sp.neg, max_increment))

\* ---- the inputs and the steps of the profile state machines --------------
MaxAlpha == 2          \* recentering: alphas are within -MaxAlpha..MaxAlpha
MaxHand == 1           \* recentering: hand of a stream point is 0..MaxHand
RowsPerSide == 3       \* filters: each side of a terrain profile has this many rows
MaxGapAlpha == 4       \* filters: alphas of an unevenly sampled profile
MaxGapRows == 3        \* filters: rows beyond the centre of a profile with gaps

HillslopeIDs == {1, 2}

\* The rows of a profile whose row at alpha lo - 1 + i is opt[i] (Absent: no
\* row there), for a function opt of 1..n to partial rows.
ProfileOf(opt, lo) ==
    LET n == Cardinality(DOMAIN opt)
        all == [i \in 1..n |->
                   Row(i, lo - 1 + i, opt[i].flow_path, opt[i].hillslope,
                       opt[i].conditioned_dem, opt[i].hand)]
    IN  SelectIdx(all, LAMBDA i : opt[i].present)

Partial(fp, hs, dem, h) ==
    [present |-> TRUE, flow_path |-> fp, hillslope |-> hs,
     conditioned_dem |-> dem, hand |-> h]

Absent ==
    [present |-> FALSE, flow_path |-> FALSE, hillslope |-> 0,
     conditioned_dem |-> 0, hand |-> 0]

\* Profiles with stream points: _recenter_on_stream reads flow_path, and hand
\* of the stream points.
StreamRows ==
    {Absent, Partial(FALSE, 1, 0, MaxHand)}
        \cup {Partial(TRUE, 0, 0, h) : h \in 0..MaxHand}

\* Profiles without a stream point: _recenter_on_stream reads hillslope.
BankRows == {Absent} \cup {Partial(FALSE, hs, 0, 1) : hs \in HillslopeIDs}

RecenterInputs ==
    {p \in {ProfileOf(opt, -MaxAlpha) :
              opt \in [1..(2 * MaxAlpha + 1) -> StreamRows]
                        \cup [1..(2 * MaxAlpha + 1) -> BankRows]} :
        p # <<>>}

\* Terrain profiles: evenly sampled, RowsPerSide rows on each side (alpha
\* -RowsPerSide .. RowsPerSide - 1); a row lies on the floor, on a bench above
\* it, or on the wall of a neighbouring drainage.
TerrainRows ==
    {Partial(FALSE, 1, 0, 0), Partial(FALSE, 1, 1, 0), Partial(FALSE, 1, 1, 2)}

\* Unevenly sampled flat profiles: rows dropped from the regular sampling.
FlatRows == {Absent, Partial(FALSE, 1, 0, 0)}

HasBothSides(p) ==
    /\ \E i \in 1..Len(p) : p[i].alpha >= 0
    /\ \E i \in 1..Len(p) : p[i].alpha < 0

\* Flat profiles with stretches of missing samples on the positive side: the
\* negative side is evenly sampled, the positive side starts at the centre and
\* advances by the regular spacing or by a gap of 4 or 5 times it.
GapSteps == {1, 4, 5}

GappedProfile(steps) ==
    LET neg == [i \in 1..RowsPerSide |-> Row(i, i - RowsPerSide - 1, FALSE, 1, 0, 0)]
        Cum[k \in 0..Len(steps)] == IF k = 0 THEN 0 ELSE Cum[k - 1] + steps[k]
        pos == [k \in 1..(Len(steps) + 1) |->
                   Row(RowsPerSide + k, Cum[k - 1], FALSE, 1, 0, 0)]
    IN  neg \o pos

GappedProfiles == {GappedProfile(steps) : steps \in SeqsUpTo(GapSteps, 1, MaxGapRows)}

FilterInputs ==
    {ProfileOf(opt, -RowsPerSide) : opt \in [1..(2 * RowsPerSide) -> TerrainRows]}
        \cup {p \in {ProfileOf(opt, -MaxGapAlpha) :
                        opt \in [1..(2 * MaxGapAlpha + 1) -> FlatRows]} :
                 HasBothSides(p)}
        \cup GappedProfiles

PosSide(p) == SelectIdx(p, LAMBDA i : p[i].alpha >= 0)
NegSide(p) == SelectIdx(p, LAMBDA i : p[i].alpha < 0)

\* The comparison sides: one flat row next to the centre.
ReferenceNeg == <<Row(0, -1, FALSE, 1, 0, 0)>>
ReferencePos == <<Row(0, 0, FALSE, 1, 0, 0)>>

FilterConfigs ==
    [min_hand_jump : {0},
     ratio : {[n |-> 1, d |-> 2], [n |-> 1, d |-> 1], [n |-> 2, d |-> 1]},
     min_peak_prominence : {None, Some(1)}]

ProfileIdle ==
    /\ profile = <<>>
    /\ profile_pos = <<>>
    /\ profile_neg = <<>>
    /\ recentered_once = <<>>
    /\ pf_cfg = <<>>
    /\ pf_pc = "idle"

\* -- recentering, applied and applied again
RecenterInit ==
    /\ profile \in RecenterInputs
    /\ profile_pos = <<>>
    /\ profile_neg = <<>>
    /\ recentered_once = <<>>
    /\ pf_cfg = <<>>
    /\ pf_pc = "raw"

Recenter ==
    /\ pf_pc \in {"raw", "once"}
    /\ \E c \in CalibrationAlphas(profile) :
          /\ profile' = _recenter_on_stream(profile, c)
          /\ recentered_once' = IF pf_pc = "raw" THEN profile' ELSE recentered_once
    /\ pf_pc' = IF pf_pc = "raw" THEN "once" ELSE "twice"
    /\ UNCHANGED <<profile_pos, profile_neg, pf_cfg>>
    /\ UNCHANGED notPf

\* -- the side filters of preprocess_profiles, run on the profile and, in
\*    step, on the two profiles that share one side with it
FilterInit ==
    /\ profile \in FilterInputs
    /\ profile_pos = ReferenceNeg \o PosSide(profile)
    /\ profile_neg = NegSide(profile) \o ReferencePos
    /\ recentered_once = <<>>
    /\ pf_cfg \in FilterConfigs
    /\ pf_pc = "recentered"

FilterRidgeCrossing ==
    /\ pf_pc = "recentered"
    /\ IF RidgeRaises(profile) \/ RidgeRaises(profile_pos) \/ RidgeRaises(profile_neg)
       THEN /\ pf_pc' = "raised"
            /\ UNCHANGED <<profile, profile_pos, profile_neg>>
       ELSE /\ pf_pc' = "ridge"
            /\ profile' = _filter_ridge_crossing(profile, pf_cfg.min_hand_jump, pf_cfg.ratio)
            /\ profile_pos' = _filter_ridge_crossing(profile_pos, pf_cfg.min_hand_jump, pf_cfg.ratio)
            /\ profile_neg' = _filter_ridge_crossing(profile_neg, pf_cfg.min_hand_jump, pf_cfg.ratio)
    /\ UNCHANGED <<recentered_once, pf_cfg>>
    /\ UNCHANGED notPf

FilterByPeaks ==
    /\ pf_pc = "ridge"
    /\ pf_pc' = "peaks"
    /\ IF pf_cfg.min_peak_prominence # None
       THEN /\ profile' = _filter_by_peaks(profile, Val(pf_cfg.min_peak_prominence))
            /\ profile_pos' = _filter_by_peaks(profile_pos, Val(pf_cfg.min_peak_prominence))
            /\ profile_neg' = _filter_by_peaks(profile_neg, Val(pf_cfg.min_peak_prominence))
       ELSE UNCHANGED <<profile, profile_pos, profile_neg>>
    /\ UNCHANGED <<recentered_once, pf_cfg>>
    /\ UNCHANGED notPf

EnsureNoGaps ==
    /\ pf_pc = "peaks"
    /\ pf_pc' = "gaps"
    /\ profile' = _ensure_no_gaps(profile)
    /\ profile_pos' = _ensure_no_gaps(profile_pos)
    /\ profile_neg' = _ensure_no_gaps(profile_neg)
    /\ UNCHANGED <<recentered_once, pf_cfg>>
    /\ UNCHANGED notPf

(***************************************************************************)
(* Reach labelling: _compute_reaches visits the segments, _assign_reach_id *)
(* numbers the cells of one segment, _relabel_flowpaths writes the labels. *)
(* A flow-path cell is <<segment ID, k>>, the k-th cell of its segment in   *)
(* ascending flow accumulation (the order of _flowpath_cells).              *)
(***************************************************************************)
NumSegments == 2       \* segment IDs are 1..NumSegments
LabelBase == 100       \* label = segment_id * 100 + reach_id

SegmentIDs == 1..NumSegments

\* The number of cells of a segment's flow path.
CellCounts == {1, 2, 3, LabelBase + 1}

\* How segment_reaches and _snap_to_flowpath break a segment: "none" (no break
\* point, segment_reaches returned None), or a snapped break point on every
\* cell or on every second cell.
BreakPatterns == {"none", "every", "second"}

SegmentInputs ==
    [cells : CellCounts, breaks : BreakPatterns, has_flowline : BOOLEAN]

\* _flowpath_cells: the cells of one segment sorted by flow accumulation.
_flowpath_cells(ID) == [k \in 1..segments[ID].cells |-> <<ID, k>>]

\* snapped_points["cell_id"]: the snapped break points and, always, the last
\* cell of the segment (flowpath_cells.iloc[[-1]]).
SnappedCellIds(ID) ==
    LET n == segments[ID].cells
        stride == IF segments[ID].breaks = "every" THEN 1 ELSE 2
    IN  IF segments[ID].breaks = "none" THEN {<<ID, n>>}
        ELSE {<<ID, k>> : k \in {j \in 1..n : j % stride = 0}} \cup {<<ID, n>>}

\* The reach counted up before the cell is numbered: a break-point cell
\* already belongs to the next reach.
_assign_reach_id_inclusive(flowpath_cells, bp_cell_ids) ==
    [k \in 1..Len(flowpath_cells) |->
        Cardinality({j \in 1..k : flowpath_cells[j] \in bp_cell_ids})]

\* _assign_reach_id: each cell gets the number of break-point cells met
\* before it.
_assign_reach_id(flowpath_cells, bp_cell_ids) ==
    [k \in 1..Len(flowpath_cells) |->
        Cardinality({j \in 1..(k - 1) : flowpath_cells[j] \in bp_cell_ids})]

\* label = segment_id * 100 + reach_id
Label(segment_id, reach_id) == segment_id * LabelBase + reach_id

AllCells == {<<ID, k>> : ID \in SegmentIDs, k \in 1..(LabelBase + 1)}

\* The boundary nodes (degree 1) of a segment's Voronoi graph, node IDs as
\* lines_to_graph counts them.
BoundaryNodeIDs == {0, 1}

\* Distances are "near" (0) or "far" (1).
Distances == {0, 1}

\* boundary_nodes with the columns distance_to_source, distance_to_target.
BoundaryNodes ==
    [BoundaryNodeIDs -> [distance_to_source : Distances, distance_to_target : Distances]]

\* A node near the source only and a node near the target only.
OppositeNodes ==
    [n \in BoundaryNodeIDs |->
        [distance_to_source |-> IF n = 0 THEN 0 ELSE 1,
         distance_to_target |-> IF n = 0 THEN 1 ELSE 0]]

\* What polygon_centerline returns, and the flowline.
NoCenterline == [kind |-> "None", source |-> 0, target |-> 0]
PathCenterline(s, t) == [kind |-> "path", source |-> s, target |-> t]
FlowlineAsCenterline == [kind |-> "flowline", source |-> 0, target |-> 0]

\* sort_values(by=col).iloc[[0]]: a node of least distance; which one of
\* several at the same distance is left to the sort.
sources_of(nodes) ==
    {n \in DOMAIN nodes : \A m \in DOMAIN nodes :
        nodes[n].distance_to_source <= nodes[m].distance_to_source}

targets_of(nodes) ==
    {n \in DOMAIN nodes : \A m \in DOMAIN nodes :
        nodes[n].distance_to_target <= nodes[m].distance_to_target}

\* polygon_centerline from the boundary nodes on: the results it can return.
\* None when the node nearest the source is the node nearest the target,
\* else the best path between the two.
polygon_centerline(nodes) ==
    {IF {src} \cap {tgt} # {} THEN NoCenterline ELSE PathCenterline(src, tgt) :
        src \in sources_of(nodes), tgt \in targets_of(nodes)}

\* The centerline passed on unchanged.
KeepCenterline(centerline, fallback) == centerline

\* `if centerline is None: centerline = flowline`
DefaultToFlowline(centerline, fallback) ==
    IF centerline = NoCenterline THEN fallback ELSE centerline

FlowpathCells == {c \in AllCells : c[2] <= segments[c[1]].cells}

ReachIdle ==
    /\ segments = <<>>
    /\ rc_todo = <<>>
    /\ all_flowpath_cells = <<>>
    /\ new_fp = <<>>
    /\ rc_pc = "idle"
    /\ bn = <<>>
    /\ centerlines = <<>>

\* The flow-path raster carries each segment's ID on its cells.
ReachInit ==
    /\ segments \in [SegmentIDs -> SegmentInputs]
    /\ rc_todo = [i \in 1..NumSegments |-> i]
    /\ all_flowpath_cells = <<>>
    /\ new_fp = [c \in FlowpathCells |-> c[1]]
    /\ rc_pc = "compute"
    /\ bn = [ID \in SegmentIDs |-> OppositeNodes]
    /\ centerlines = <<>>

\* Segments of at most three flow-path cells.
ShortReachInit ==
    /\ segments \in [SegmentIDs ->
           [cells : CellCounts \ {LabelBase + 1}, breaks : BreakPatterns,
            has_flowline : BOOLEAN]]
    /\ rc_todo = [i \in 1..NumSegments |-> i]
    /\ all_flowpath_cells = <<>>
    /\ new_fp = [c \in FlowpathCells |-> c[1]]
    /\ rc_pc = "compute"
    /\ bn = [ID \in SegmentIDs |-> OppositeNodes]
    /\ centerlines = <<>>

\* Segments of two flow-path cells that have a flowline, each with any
\* boundary nodes.
CenterlineInit ==
    /\ segments \in [SegmentIDs ->
           [cells : {2}, breaks : {"every"}, has_flowline : {TRUE}]]
    /\ rc_todo = [i \in 1..NumSegments |-> i]
    /\ all_flowpath_cells = <<>>
    /\ new_fp = [c \in FlowpathCells |-> c[1]]
    /\ rc_pc = "compute"
    /\ bn \in [SegmentIDs -> BoundaryNodes]
    /\ centerlines = <<>>

\* One pass of the loop of _compute_reaches.  A segment without a flowline
\* is skipped.  What segment_reaches and _snap_to_flowpath give for the
\* segment is SnappedCellIds.
ComputeReaches ==
    /\ rc_pc = "compute"
    /\ rc_todo # <<>>
    /\ LET ID == Head(rc_todo)
           cells == _flowpath_cells(ID)
           reach_ids == _assign_reach_id(cells, SnappedCellIds(ID))
           rows == [c \in {cells[k] : k \in 1..Len(cells)} |-> reach_ids[c[2]]]
       IN  IF ~segments[ID].has_flowline
           THEN /\ rc_todo' = Tail(rc_todo)
                /\ rc_pc' = IF Tail(rc_todo) = <<>> THEN "relabel" ELSE "compute"
                /\ UNCHANGED <<all_flowpath_cells, centerlines>>
           ELSE \E returned \in polygon_centerline(bn[ID]) :
                  LET centerline == DefaultToFlowline(returned, FlowlineAsCenterline)
                  IN  /\ centerlines' =
                             [i \in (DOMAIN centerlines) \cup {ID} |->
                                 IF i = ID THEN centerline ELSE centerlines[i]]
                      /\ all_flowpath_cells' =
                             [c \in (DOMAIN all_flowpath_cells) \cup (DOMAIN rows) |->
                                 IF c \in DOMAIN rows THEN rows[c]
                                 ELSE all_flowpath_cells[c]]
                      /\ rc_todo' = Tail(rc_todo)
                      /\ rc_pc' = IF Tail(rc_todo) = <<>> THEN "relabel" ELSE "compute"
    /\ UNCHANGED <<segments, new_fp, bn>>
    /\ UNCHANGED notRc

\* _relabel_flowpaths: every gathered cell gets its composite label.
RelabelFlowpaths ==
    /\ rc_pc = "relabel"
    /\ new_fp' = [c \in DOMAIN new_fp |->
                    IF c \in DOMAIN all_flowpath_cells
                    THEN Label(c[1], all_flowpath_cells[c])
                    ELSE new_fp[c]]
    /\ rc_pc' = "done"
    /\ UNCHANGED <<segments, rc_todo, all_flowpath_cells, bn, centerlines>>
    /\ UNCHANGED notRc

\* ---- relabel_flowpaths (reach/relabel_flowpaths.py) ------------------------
\* _flowpath_cells there: the cells of every segment, sorted by segment_id and
\* then by flow accumulation.
SortedFlowpathCells ==
    LET Upto[i \in 0..NumSegments] ==
            IF i = 0 THEN <<>> ELSE Upto[i - 1] \o _flowpath_cells(i)
    IN  Upto[NumSegments]

\* pour_points["cell_id"]: the cells of the pour points, here the break points
\* and the last cell of every segment.
PourPointCellIds == UNION {SnappedCellIds(ID) : ID \in SegmentIDs}

\* relabel_flowpaths: one numbering runs over the cells of all segments; each
\* cell of the raster gets its reach_id.
relabel_flowpaths(cell_ids, flowpaths) ==
    LET cells == SortedFlowpathCells
        reach_ids == _assign_reach_id(cells, cell_ids)
    IN  [c \in DOMAIN flowpaths |->
            IF \E k \in 1..Len(cells) : cells[k] = c
            THEN reach_ids[CHOOSE k \in 1..Len(cells) : cells[k] = c]
            ELSE flowpaths[c]]

\* Segments of at most three flow-path cells, with their pour points.
PourInit ==
    /\ segments \in [SegmentIDs ->
           [cells : CellCounts \ {LabelBase + 1}, breaks : BreakPatterns,
            has_flowline : {TRUE}]]
    /\ rc_todo = <<>>
    /\ all_flowpath_cells = <<>>
    /\ new_fp = [c \in FlowpathCells |-> c[1]]
    /\ rc_pc = "pour_points"
    /\ bn = [ID \in SegmentIDs |-> OppositeNodes]
    /\ centerlines = <<>>

RelabelByPourPoints ==
    /\ rc_pc = "pour_points"
    /\ new_fp' = relabel_flowpaths(PourPointCellIds, new_fp)
    /\ rc_pc' = "relabelled"
    /\ UNCHANGED <<segments, rc_todo, all_flowpath_cells, bn, centerlines>>
    /\ UNCHANGED notRc

(***************************************************************************)
(* Floor labelling.  A raster is a function of the cells <<row, col>> of    *)
(* the grid; a mask is the set of its True cells.                           *)
(***************************************************************************)
GridW == 4             \* columns of the raster
Rows == 1..4
Cols == 1..GridW
Cells == {<<r, c>> : r \in Rows, c \in Cols}

Max2(a, b) == IF a > b THEN a ELSE b

\* Chebyshev distance of two cells: 1 for the 8 neighbours.
Dist8(a, b) == Max2(Abs(a[1] - b[1]), Abs(a[2] - b[2]))

\* Neighbours under connectivity 2 (the 8 cells around) or 1 (the 4 cells
\* sharing an edge).
Adjacent(a, b, connectivity) ==
    IF connectivity = 2 THEN Dist8(a, b) = 1
    ELSE Abs(a[1] - b[1]) + Abs(a[2] - b[2]) = 1

\* The cells of S joined to a cell of seeds by a path of adjacent cells of S.
RECURSIVE Grow(_, _, _)
Grow(S, reached, connectivity) ==
    LET more == {c \in S \ reached :
                    \E d \in reached : Adjacent(c, d, connectivity)}
    IN  IF more = {} THEN reached ELSE Grow(S, reached \cup more, connectivity)

Reachable(S, seeds, connectivity) == Grow(S, seeds \cap S, connectivity)

\* ---- scipy.ndimage binary morphology with a 3 x 3 structure of ones ------
\* Dilation: a cell is set when it or one of its 8 neighbours is set.
binary_dilation(S) == {c \in Cells : \E d \in S : Dist8(c, d) <= 1}

\* Erosion (border_value = 0): a cell stays when its whole 3 x 3 window lies
\* inside the raster and is set.
binary_erosion(S) ==
    {c \in S : \A dr \in {-1, 0, 1}, dc \in {-1, 0, 1} :
                  <<c[1] + dr, c[2] + dc>> \in S}

\* binary_closing: the erosion of the dilation.
binary_closing(S) == binary_erosion(binary_dilation(S))

\* ---- connected (floor/foundation/connect.py) ------------------------------
\* (variant: every component kept, with or without a flow-path cell)
connected_unfiltered(binary, flowpaths) == flowpaths \cup binary

\* The components (8-connectivity) of flowpaths + binary that hold a
\* flow-path cell.
connected(binary, flowpaths) ==
    Reachable(flowpaths \cup binary, flowpaths, 2)

\* ---- skimage remove_small_holes (connectivity 1) --------------------------
\* Every 4-connected component of the background with fewer than
\* area_threshold cells is filled.
remove_small_holes(S, area_threshold) ==
    LET background == Cells \ S
        Component(c) == Reachable(background, {c}, 1)
    IN  S \cup {c \in background : Cardinality(Component(c)) < area_threshold}

\* (variant: the slope filter applied last, after the flow paths are burnt
\* in and the connectivity filter has run)
label_floors_filter_last(b, foundation, flood_extent, max_floor_slope, max_fill_area) ==
    LET summed == foundation \cup flood_extent
        burned == binary_closing(summed) \cup b.flow_paths
        joined == connected(burned, b.flow_paths)
        filled == IF max_fill_area = None \/ Val(max_fill_area) = 0 THEN joined
                  ELSE remove_small_holes(joined, Val(max_fill_area))
    IN  IF max_floor_slope = None THEN filled
        ELSE {c \in filled : ~(b.slope[c] > Val(max_floor_slope))}

\* (variant: no slope filter)
label_floors_unfiltered(b, foundation, flood_extent, max_floor_slope, max_fill_area) ==
    LET summed == foundation \cup flood_extent
        burned == binary_closing(summed) \cup b.flow_paths
        joined == connected(burned, b.flow_paths)
    IN  IF max_fill_area = None \/ Val(max_fill_area) = 0 THEN joined
        ELSE remove_small_holes(joined, Val(max_fill_area))

\* ---- label_floors, from the combination of the two masks to the return ----
\* (floor.py lines 90-114).  slope is the raster flood() was given; the
\* resolution of the raster is 1, so num_cells = int(max_fill_area).
label_floors(b, foundation, flood_extent, max_floor_slope, max_fill_area) ==
    LET summed == foundation \cup flood_extent
        gentle == IF max_floor_slope = None THEN summed
                  ELSE {c \in summed : ~(b.slope[c] > Val(max_floor_slope))}
        closed == binary_closing(gentle)
        burned == closed \cup b.flow_paths
        joined == connected(burned, b.flow_paths)
    IN  IF max_fill_area = None \/ Val(max_fill_area) = 0 THEN joined
        ELSE remove_small_holes(joined, Val(max_fill_area))

\* ---- flood thresholds (flood_extent/flood.py) -----------------------------
PercentileSteps == 2   \* percentile = k / PercentileSteps, k in 0..PercentileSteps

\* A threshold cell of the table: the Python None, the float NaN, or a number
\* (held multiplied by PercentileSteps, so that interpolated quantiles stay
\* integers).
T_None == [kind |-> "None", v |-> 0]
T_NaN == [kind |-> "nan", v |-> 0]
T_Num(x) == [kind |-> "num", v |-> x]

\* The elements of a set of integers in increasing order.
RECURSIVE SortedSeq(_)
SortedSeq(S) ==
    IF S = {} THEN <<>>
    ELSE <<SetMin(S)>> \o SortedSeq(S \ {SetMin(S)})

\* finite_unique: the sorted distinct values of a raster over a set of cells.
finite_unique(raster, cells) == SortedSeq({raster[c] : c \in cells})

\* (variant: interpolation counted from the largest value downwards)
QuantileFromTop(sample, k) ==
    LET s == SortBy(sample, LAMBDA x : x)
        n == Len(s)
        h == (n - 1) * k
        lo == h \div PercentileSteps
        frac == h % PercentileSteps
    IN  IF frac = 0 THEN s[n - lo] * PercentileSteps
        ELSE s[n - lo] * PercentileSteps + frac * (s[n - lo - 1] - s[n - lo])

\* np.quantile(sample, k / PercentileSteps), linear interpolation, times
\* PercentileSteps.
Quantile(sample, k) ==
    LET s == SortBy(sample, LAMBDA x : x)
        n == Len(s)
        h == (n - 1) * k
        lo == h \div PercentileSteps
        frac == h % PercentileSteps
    IN  IF frac = 0 THEN s[lo + 1] * PercentileSteps
        ELSE s[lo + 1] * PercentileSteps + frac * (s[lo + 2] - s[lo + 1])

\* The hand values of the wall points of one (subbasin, hillslope) pair.
PointsOf(pts, reachID, hillslopeID) ==
    LET mine == SelectSeq(pts, LAMBDA p : p.streamID = reachID
                                          /\ p.hillslope = hillslopeID)
    IN  [i \in 1..Len(mine) |-> mine[i].hand]

\* pd.DataFrame(results): a threshold column of None only keeps its None
\* (dtype object); with a number in it the column is float64 and None is NaN.
AsDataFrame(results) ==
    IF \E i \in 1..Len(results) : results[i].threshold.kind = "num"
    THEN [i \in 1..Len(results) |->
            IF results[i].threshold.kind = "None"
            THEN [results[i] EXCEPT !.threshold = T_NaN]
            ELSE results[i]]
    ELSE results

RECURSIVE Concat(_)
Concat(ss) == IF ss = <<>> THEN <<>> ELSE Head(ss) \o Concat(Tail(ss))

determine_flood_extents(pts, subbasins, hillslopes, min_points, percentile, buffer) ==
    LET reachIDs == finite_unique(subbasins, Cells)
        ResultOf(reachID, hillslopeID) ==
            LET result == [streamID |-> reachID, hillslopeID |-> hillslopeID,
                           threshold |-> T_None]
            IN  IF hillslopeID = 0 THEN <<>>
                ELSE IF pts = None THEN <<result>>
                ELSE LET points == PointsOf(pts, reachID, hillslopeID)
                     IN  IF Len(points) < min_points THEN <<result>>
                         ELSE <<[result EXCEPT !.threshold =
                                   T_Num(Quantile(points, percentile)
                                         + buffer * PercentileSteps)]>>
        OfReach(reachID) ==
            LET ids == finite_unique(hillslopes,
                                     {c \in Cells : subbasins[c] = reachID})
            IN  Concat([j \in 1..Len(ids) |-> ResultOf(reachID, ids[j])])
    IN  AsDataFrame(Concat([i \in 1..Len(reachIDs) |-> OfReach(reachIDs[i])]))

\* DataFrame.fillna(default_threshold): None and NaN cells take the value.
fillna(table, value) ==
    [i \in 1..Len(table) |->
        IF table[i].threshold.kind = "num" THEN table[i]
        ELSE [table[i] EXCEPT !.threshold = T_Num(value * PercentileSteps)]]

\* (variant: hand strictly below the threshold)
RowMaskStrict(b, row) ==
    {c \in Cells : /\ b.subbasins[c] = row.streamID
                   /\ b.hillslopes[c] = row.hillslopeID
                   /\ b.hand[c] * PercentileSteps < row.threshold.v}

\* The cells one row of the table floods.
RowMask(b, row) ==
    {c \in Cells : /\ b.subbasins[c] = row.streamID
                   /\ b.hillslopes[c] = row.hillslopeID
                   /\ b.hand[c] * PercentileSteps <= row.threshold.v}

\* apply_flood_thresholds: np.isfinite is False for NaN (the row is skipped)
\* and raises TypeError for None.
apply_flood_thresholds(b, table) ==
    LET rows == 1..Len(table)
    IN  IF \E i \in rows : table[i].threshold.kind = "None"
        THEN [raised |-> TRUE, mask |-> {}]
        ELSE [raised |-> FALSE,
              mask |-> UNION {RowMask(b, table[i]) :
                                 i \in {j \in rows :
                                          table[j].threshold.kind = "num"}}]

\* ---- the basins and configurations explored ------------------------------
\* A basin: one channel along row r, from the first column over len cells
\* (len = 0: no flow-path cell); subbasin 1 is the left half of the raster and
\* subbasin 2 the right half; hillslope 0 is the channel, 1 the cells of the
\* rows down to the channel row, 2 the cells below it; hand is the distance
\* to the channel in cells; slope is 1 on the steep cells and 0 elsewhere.
Basin(r, len, steep) ==
    LET fp == {<<r, c>> : c \in 1..len}
    IN  [flow_paths |-> fp,
         subbasins  |-> [c \in Cells |-> IF c[2] <= GridW \div 2 THEN 1 ELSE 2],
         hillslopes |-> [c \in Cells |-> IF c \in fp THEN 0
                                          ELSE IF c[1] <= r THEN 1 ELSE 2],
         hand       |-> [c \in Cells |->
                            IF fp = {} THEN 0
                            ELSE SetMin({Dist8(c, p) : p \in fp})],
         slope      |-> [c \in Cells |-> IF c \in steep THEN 1 ELSE 0]]

Channels == {<<1, 0>>} \cup (Rows \X (1..GridW))

\* The slope filter: off, or on with one steep cell in the second row.
SlopeFilters ==
    {[max_floor_slope |-> None, steep |-> {}]}
    \cup {[max_floor_slope |-> Some(0), steep |-> {<<2, c>>}] : c \in Cols}

Config(max_floor_slope, max_fill_area, min_points, percentile, buffer, default_threshold) ==
    [max_floor_slope |-> max_floor_slope, max_fill_area |-> max_fill_area,
     min_points |-> min_points, percentile |-> percentile,
     buffer |-> buffer, default_threshold |-> default_threshold]

\* The wall points of one (subbasin, hillslope) pair, by their hand values.
WallSamples == {<<>>, <<1>>, <<2, 0>>}
WallPairs == <<<<1, 1>>, <<1, 2>>, <<2, 1>>, <<2, 2>>>>

\* The wall-point table of flood(): None when no point was classified.
BoundaryPts(samples) ==
    LET PairRows(i) ==
            [j \in 1..Len(samples[i]) |->
                [streamID |-> WallPairs[i][1], hillslope |-> WallPairs[i][2],
                 hand |-> samples[i][j]]]
        rows == Concat([i \in 1..Len(WallPairs) |-> PairRows(i)])
    IN  IF rows = <<>> THEN None ELSE rows

FloorIdle ==
    /\ basin = <<>> /\ foundation_floor = {} /\ boundary_pts = None
    /\ cfg = <<>> /\ thresholds = <<>> /\ flooded = {}
    /\ flood_extent_floor = {} /\ combined = {} /\ lf_pc = "idle"

FloorStart ==
    /\ thresholds = <<>> /\ flooded = {} /\ flood_extent_floor = {}
    /\ combined = {} /\ lf_pc = "start"

\* label_floors on basins without wall points: every foundation mask of at
\* most one cell, every slope filter, hole filling off or on.
FloorInit ==
    /\ \E ch \in Channels, f \in SlopeFilters,
          fill \in {None, Some(GridW + 1)},
          d \in {None, Some(0), Some(1)} :
          /\ basin = Basin(ch[1], ch[2], f.steep)
          /\ cfg = Config(f.max_floor_slope, fill, 1, PercentileSteps, 0, d)
    /\ foundation_floor \in {{}} \cup {{c} : c \in Cells}
    /\ boundary_pts = None
    /\ FloorStart

\* flood() on basins with a channel along the second row and wall points:
\* every sample per pair, every percentile step, with and without a default
\* threshold.
FloodInit ==
    /\ \E len \in 0..GridW : basin = Basin(2, len, {})
    /\ \E mp \in {1, 2}, k \in 0..PercentileSteps, buf \in {0, 1},
          d \in {None, Some(1)} :
          cfg = Config(None, None, mp, k, buf, d)
    /\ \E samples \in [1..Len(WallPairs) -> WallSamples] :
          boundary_pts = BoundaryPts(samples)
    /\ foundation_floor = {}
    /\ FloorStart

\* flood(), lines 40-87: the cross-sections, the wall points and the
\* threshold table.  With no flowline network_xsections has no frame to sort
\* and raises KeyError.
DetermineFloodExtents ==
    /\ lf_pc = "start"
    /\ IF basin.flow_paths = {}
       THEN /\ lf_pc' = "KeyError"
            /\ UNCHANGED thresholds
       ELSE /\ thresholds' = determine_flood_extents(
                                 boundary_pts, basin.subbasins,
                                 basin.hillslopes, cfg.min_points,
                                 cfg.percentile, cfg.buffer)
            /\ lf_pc' = "determined"
    /\ UNCHANGED <<basin, foundation_floor, boundary_pts, cfg, flooded,
                   flood_extent_floor, combined>>
    /\ UNCHANGED notLf

\* flood(), lines 88-99: the default threshold, the flooded mask and the
\* flow paths added to it.
ApplyFloodThresholds ==
    /\ lf_pc = "determined"
    /\ LET filled == IF cfg.default_threshold # None
                     THEN fillna(thresholds, Val(cfg.default_threshold))
                     ELSE thresholds
           result == apply_flood_thresholds(basin, filled)
       IN  /\ thresholds' = filled
           /\ IF result.raised
              THEN /\ lf_pc' = "TypeError"
                   /\ UNCHANGED <<flooded, flood_extent_floor>>
              ELSE /\ flooded' = result.mask
                   /\ flood_extent_floor' = result.mask \cup basin.flow_paths
                   /\ lf_pc' = "flooded"
    /\ UNCHANGED <<basin, foundation_floor, boundary_pts, cfg, combined>>
    /\ UNCHANGED notLf

\* label_floors, lines 90-123.
CombineFloors ==
    /\ lf_pc = "flooded"
    /\ combined' = label_floors(basin, foundation_floor, flood_extent_floor,
                                cfg.max_floor_slope, cfg.max_fill_area)
    /\ lf_pc' = "done"
    /\ UNCHANGED <<basin, foundation_floor, boundary_pts, cfg, thresholds,
                   flooded, flood_extent_floor>>
    /\ UNCHANGED notLf

(***************************************************************************)
(* Temp files of the terrain operations and the working directory of        *)
(* extract_valleys.  A file of the working directory is its name:           *)
(* "<prefix>-<name>.<ext>".                                                  *)
(***************************************************************************)
Instances == {1, 2}

TempFile(name, ext) == [name |-> name, ext |-> ext]
Tool(reads, writes) == [reads |-> reads, writes |-> writes]

Operations ==
    {"flow_acc_workflow", "subbasins", "hillslopes", "hand",
     "elevation_derivatives", "flowpaths_to_flowlines", "trace_flowpaths"}

\* The files an operation writes itself, before its try block, in order.
OperationInputs(op) ==
    CASE op = "flow_acc_workflow" -> <<TempFile("dem", "tif")>>
      [] op = "subbasins" ->
            <<TempFile("flow_dir", "tif"), TempFile("pour_points", "shp")>>
      [] op = "hillslopes" ->
            <<TempFile("flow_dir", "tif"), TempFile("flow_paths", "tif")>>
      [] op = "hand" ->
            <<TempFile("dem", "tif"), TempFile("flow_paths", "tif")>>
      [] op = "elevation_derivatives" -> <<TempFile("dem", "tif")>>
      [] op = "flowpaths_to_flowlines" ->
            <<TempFile("flowpaths", "tif"), TempFile("flowdir", "tif")>>
      [] op = "trace_flowpaths" ->
            <<TempFile("flow_acc", "tif"), TempFile("flow_dir", "tif"),
              TempFile("channel_heads", "shp")>>

\* The external tool calls of an operation, in order: the files each reads
\* and the file it writes.
OperationTools(op) ==
    CASE op = "flow_acc_workflow" ->
            <<Tool({TempFile("dem", "tif")}, TempFile("cdem", "tif")),
              Tool({TempFile("cdem", "tif")}, TempFile("flow_dir", "tif")),
              Tool({TempFile("flow_dir", "tif")}, TempFile("flow_acc", "tif"))>>
      [] op = "subbasins" ->
            <<Tool({TempFile("flow_dir", "tif"), TempFile("pour_points", "shp")},
                   TempFile("subbasins", "tif"))>>
      [] op = "hillslopes" ->
            <<Tool({TempFile("flow_dir", "tif"), TempFile("flow_paths", "tif")},
                   TempFile("hillslopes", "tif"))>>
      [] op = "hand" ->
            <<Tool({TempFile("dem", "tif"), TempFile("flow_paths", "tif")},
                   TempFile("hand", "tif"))>>
      [] op = "elevation_derivatives" ->
            <<Tool({TempFile("dem", "tif")}, TempFile("slope", "tif")),
              Tool({TempFile("dem", "tif")}, TempFile("profile_curvature", "tif"))>>
      [] op = "flowpaths_to_flowlines" ->
            <<Tool({TempFile("flowpaths", "tif"), TempFile("flowdir", "tif")},
                   TempFile("flowlines", "shp"))>>
      [] op = "trace_flowpaths" ->
            <<Tool({TempFile("channel_heads", "shp"), TempFile("flow_acc", "tif")},
                   TempFile("snapped_channel_heads", "shp")),
              Tool({TempFile("snapped_channel_heads", "shp"),
                    TempFile("flow_dir", "tif")}, TempFile("flow_paths", "tif")),
              Tool({TempFile("flow_dir", "tif"), TempFile("flow_paths", "tif")},
                   TempFile("flow_paths_id", "tif")),
              Tool({TempFile("flow_paths_id", "tif"), TempFile("flow_dir", "tif")},
                   TempFile("flowlines", "shp"))>>

\* The files an operation reads back after its tool calls.
OperationLoads(op) ==
    CASE op = "flow_acc_workflow" ->
            {TempFile("cdem", "tif"), TempFile("flow_dir", "tif"),
             TempFile("flow_acc", "tif")}
      [] op = "subbasins" -> {TempFile("subbasins", "tif")}
      [] op = "hillslopes" -> {TempFile("hillslopes", "tif")}
      [] op = "hand" -> {TempFile("hand", "tif")}
      [] op = "elevation_derivatives" ->
            {TempFile("slope", "tif"), TempFile("profile_curvature", "tif")}
      [] op = "flowpaths_to_flowlines" -> {TempFile("flowlines", "shp")}
      [] op = "trace_flowpaths" ->
            {TempFile("flowlines", "shp"), TempFile("flow_paths_id", "tif")}

\* construct_fname: the prefix is formatted into the name, None as "None".
construct_fname(prefix, f) ==
    [prefix |-> IF prefix = None THEN "None" ELSE Val(prefix),
     name |-> f.name, ext |-> f.ext]

\* The manifest of an operation: the paths of its temp files.
Manifest(prefix, op) ==
    LET ins == OperationInputs(op)
        tools == OperationTools(op)
    IN  {construct_fname(prefix, ins[k]) : k \in 1..Len(ins)}
        \cup {construct_fname(prefix, tools[k].writes) : k \in 1..Len(tools)}

\* The files beside a shapefile.
Sidecars(path) ==
    IF path.ext = "shp"
    THEN {[path EXCEPT !.ext = e] : e \in {"dbf", "prj", "shx", "cpg"}}
    ELSE {}

\* Writing a file creates it, a shapefile with the files beside it.
Written(path) == {path} \cup Sidecars(path)

\* cleanup_files: every manifest file that exists is removed, a shapefile with
\* the files beside it.
cleanup_files(files, manifest) ==
    files \ UNION {Written(p) : p \in manifest \cap files}

\* The terrain operations of flow_analysis, in order (flow/flow.py).
FlowAnalysisOperations ==
    <<"flow_acc_workflow", "trace_flowpaths", "subbasins", "hillslopes", "hand">>

\* One TerrainAnalyzer, alone (ev = "none") or inside extract_valleys.
Instance(prefix, ev, todo) ==
    [prefix |-> prefix, ev |-> ev, todo |-> todo, op |-> "none",
     pc |-> "idle", step |-> 0]

\* An exception leaves the operation and, inside extract_valleys, the stage
\* and extract_valleys itself.
Raised(r) ==
    [r EXCEPT !.pc = "raised", !.ev = IF @ = "none" THEN "none" ELSE "raised"]

ManifestOf(r) == Manifest(r.prefix, r.op)

Prefixes == {None, Some("a"), Some("b")}

TempIdle ==
    /\ wd_exists = FALSE /\ wd_files = {}
    /\ run = [i \in Instances |-> Instance(None, "none", <<>>)]

\* Two TerrainAnalyzer instances on one working directory, each about to run
\* one operation.
TerrainInit ==
    /\ wd_exists = TRUE /\ wd_files = {}
    /\ \E p1 \in {None, Some("a")}, p2 \in Prefixes, op1 \in Operations,
          op2 \in {"none", "hand", "flow_acc_workflow"} :
          run = [i \in Instances |->
                    IF i = 1 THEN Instance(p1, "none", <<op1>>)
                    ELSE IF op2 = "none" THEN Instance(p2, "none", <<>>)
                    ELSE Instance(p2, "none", <<op2>>)]

\* One extract_valleys: without a wbt (the directory is set up, it may exist
\* already) or with the caller's wbt, whose directory exists.
ExtractInit ==
    /\ wd_files = {}
    /\ \E p \in {None, Some("a")}, given \in BOOLEAN :
          /\ run = [i \in Instances |->
                       IF i = 1
                       THEN Instance(p, IF given THEN "flow" ELSE "setup",
                                     IF given THEN FlowAnalysisOperations
                                     ELSE <<>>)
                       ELSE Instance(None, "none", <<>>)]
          /\ IF given THEN wd_exists = TRUE ELSE wd_exists \in BOOLEAN

\* setup_wbt (core.py 21-31, 105-109): the working directory is made.
SetupWbt ==
    /\ \E i \in Instances :
          /\ run[i].ev = "setup"
          /\ run' = [run EXCEPT ![i].ev = "flow",
                                ![i].todo = FlowAnalysisOperations]
    /\ wd_exists' = TRUE
    /\ UNCHANGED wd_files
    /\ UNCHANGED notTf

\* An operation begins: its manifest is made.
StartOperation ==
    /\ \E i \in Instances :
          /\ run[i].pc \in {"idle", "returned"}
          /\ run[i].ev \in {"none", "flow"}
          /\ run[i].todo # <<>>
          /\ run' = [run EXCEPT ![i].op = Head(run[i].todo),
                                ![i].todo = Tail(run[i].todo),
                                ![i].pc = "write", ![i].step = 0]
    /\ UNCHANGED <<wd_exists, wd_files>>
    /\ UNCHANGED notTf

\* The operation writes its next input file (to_raster, to_file), before the
\* try block: the write succeeds, or raises with nothing or part of the file
\* written.
WriteInput ==
    /\ \E i \in Instances :
          /\ run[i].pc = "write"
          /\ LET r == run[i]
                 ins == OperationInputs(r.op)
                 path == construct_fname(r.prefix, ins[r.step + 1])
             IN  \E outcome \in {"ok", "failed", "partial"} :
                    /\ wd_exists \/ outcome = "failed"
                    /\ wd_files' = CASE outcome = "ok" -> wd_files \cup Written(path)
                                     [] outcome = "partial" -> wd_files \cup {path}
                                     [] outcome = "failed" -> wd_files
                    /\ run' = [run EXCEPT ![i] =
                                 IF outcome # "ok" THEN Raised(r)
                                 ELSE IF r.step + 1 = Len(ins)
                                 THEN [r EXCEPT !.pc = "tools", !.step = 0]
                                 ELSE [r EXCEPT !.step = r.step + 1]]
    /\ UNCHANGED wd_exists
    /\ UNCHANGED notTf

\* The next external tool call, inside the try block: it writes its output,
\* or fails (also when a file it reads is missing) and the operation raises
\* ValueError after cleanup_files.
RunTool ==
    /\ \E i \in Instances :
          /\ run[i].pc = "tools"
          /\ LET r == run[i]
                 tools == OperationTools(r.op)
                 tool == tools[r.step + 1]
                 reads == {construct_fname(r.prefix, f) : f \in tool.reads}
                 out == construct_fname(r.prefix, tool.writes)
             IN  \E ok \in BOOLEAN :
                    /\ ok => (wd_exists /\ reads \subseteq wd_files)
                    /\ IF ok
                       THEN /\ wd_files' = wd_files \cup Written(out)
                            /\ run' = [run EXCEPT ![i] =
                                         IF r.step + 1 = Len(tools)
                                         THEN [r EXCEPT !.pc = "load"]
                                         ELSE [r EXCEPT !.step = r.step + 1]]
                       ELSE /\ wd_files' = cleanup_files(wd_files, ManifestOf(r))
                            /\ run' = [run EXCEPT ![i] = Raised(r)]
    /\ UNCHANGED wd_exists
    /\ UNCHANGED notTf

\* The results are read back and cleanup_files runs: the operation returns,
\* or raises ValueError when a result cannot be read.
LoadResults ==
    /\ \E i \in Instances :
          /\ run[i].pc = "load"
          /\ LET r == run[i]
                 loads == {construct_fname(r.prefix, f) : f \in OperationLoads(r.op)}
             IN  /\ wd_files' = cleanup_files(wd_files, ManifestOf(r))
                 /\ run' = [run EXCEPT ![i] =
                              IF loads \subseteq wd_files
                              THEN [r EXCEPT !.pc = "returned"]
                              ELSE Raised(r)]
    /\ UNCHANGED wd_exists
    /\ UNCHANGED notTf

\* A stage of extract_valleys ends (core.py 117-156): it returns, or raises.
StageEnds ==
    /\ \E i \in Instances, raises \in BOOLEAN :
          /\ \/ run[i].ev = "flow" /\ run[i].pc = "returned" /\ run[i].todo = <<>>
             \/ run[i].ev \in {"reach", "floor"}
          /\ run' = [run EXCEPT ![i].ev =
                        IF raises THEN "raised"
                        ELSE CASE @ = "flow" -> "reach"
                               [] @ = "reach" -> "floor"
                               [] @ = "floor" -> "cleanup"]
    /\ UNCHANGED <<wd_exists, wd_files>>
    /\ UNCHANGED notTf

\* extract_valleys removes the working directory (core.py 170-171) and
\* returns.
RemoveWorkDir ==
    /\ \E i \in Instances :
          /\ run[i].ev = "cleanup"
          /\ run' = [run EXCEPT ![i].ev = "returned"]
    /\ wd_exists' = FALSE
    /\ wd_files' = {}
    /\ UNCHANGED notTf

(***************************************************************************)
(* Wall points of a cross-section profile                                  *)
(* (valleyx/floor/flood_extent/classify_profile_max_ascent.py,             *)
(*  valleyx/floor/flood_extent/path.py, valleyx/profile/classify_profile.py)*)
(*                                                                         *)
(* The rasters are one row of StripLen cells.  A profile has one row per   *)
(* alpha in -WallAlpha..WallAlpha, sorted by alpha; the point of the row   *)
(* at alpha lies in the cell Abs(alpha) cells from the stream cell, so the *)
(* raster reaches one cell beyond the last profile point.                  *)
(***************************************************************************)
WallAlpha == 2

MaxSteps == 3

StripLen == WallAlpha + 2

RasterRows == {0}

RasterCols == 0..(StripLen - 1)

Pixels == RasterRows \X RasterCols

\* DIRMAPS["wbt"]: the (drow, dcol) step of a direction code.
DIRMAPS_wbt ==
    [code \in {64, 128, 1, 32, 0, 2, 16, 8, 4} |->
        CASE code = 64  -> <<-1, -1>>
          [] code = 128 -> <<-1, 0>>
          [] code = 1   -> <<-1, 1>>
          [] code = 32  -> <<0, -1>>
          [] code = 0   -> <<0, 0>>
          [] code = 2   -> <<0, 1>>
          [] code = 16  -> <<1, -1>>
          [] code = 8   -> <<1, 0>>
          [] code = 4   -> <<1, 1>>]

\* The direction codes a traced raster holds: stay, right, left, up.
TraceCodes == {0, 2, 32, 128}

\* The direction codes of the max-ascent raster under a profile: stay, or
\* one cell further from the stream.
AscentCodes == {0, 2}

SlopeLevels == {0, 1}

\* num_cells of is_wall_point, which traces num_cells + 1 steps.
PathLengths == {1, 2}

\* The cell a step from cur in its direction leads to.
NextCell(cur, fd, dirmap) ==
    <<cur[1] + dirmap[fd[cur]][1], cur[2] + dirmap[fd[cur]][2]>>

\* The break taken one step too late.
CountReachedLate(count, n) == n > 0 /\ count > n

\* `if num_cells > 0: if count >= num_cells: break`
CountReached(count, n) == n > 0 /\ count >= n

\* `if not (0 <= next_row < nrows and 0 <= next_col < ncols)`
InRaster(cell) == cell \in Pixels

\* The while loop of _trace_flowpath_numba from the state (path, count).
RECURSIVE TraceLoop(_, _, _, _, _)
TraceLoop(path, count, fd, dirmap, n) ==
    LET cur == path[Len(path)]
        nxt == NextCell(cur, fd, dirmap)
    IN  IF CountReached(count, n) THEN path
        ELSE IF fd[cur] = 0 THEN path
        ELSE IF ~InRaster(nxt) THEN path
        ELSE TraceLoop(Append(path, nxt), count + 1, fd, dirmap, n)

_trace_flowpath_numba(current_row, current_col, flow_dir_values, dirmap, n) ==
    TraceLoop(<<<<current_row, current_col>>>>, 0, flow_dir_values, dirmap, n)

trace_flowpath(row, col, flow_dir, dirmap, n) ==
    _trace_flowpath_numba(row, col, flow_dir, dirmap, n)

\* point_to_pixel of the profile point at alpha.
point_to_pixel(a) == <<0, Abs(a)>>

\* is_wall_point of the superseded package (slopes/max_ascent): num_cells
\* steps are traced and the start cell is one of the sampled cells.
is_wall_point_slopes(a, fd, dirmap, sl, thr, n) ==
    LET px == point_to_pixel(a)
        path == trace_flowpath(px[1], px[2], fd, dirmap, n)
    IN  /\ ~(Len(path) < n)
        /\ ~(\E i \in 1..n : sl[path[i]] < thr)

\* is_wall_point: the path beyond the start cell has num_cells cells and
\* none of the first num_cells slopes is below the threshold.
is_wall_point(a, fd, dirmap, sl, thr, n) ==
    LET px == point_to_pixel(a)
        traced == trace_flowpath(px[1], px[2], fd, dirmap, n + 1)
        path == Tail(traced)
    IN  /\ ~(Len(path) < n)
        /\ ~(\E i \in 1..n : sl[path[i]] < thr)

XsRow(a, bp) == [alpha |-> a, bp |-> bp, wallpoint |-> FALSE]

\* split_profile with duplicate_center = True: the rows with alpha >= 0, and
\* the rows with alpha <= 0 sorted outward.  A row keeps its index label,
\* which is its alpha in the profile; `dist` is the alpha column of the half.
split_profile_center(p) ==
    LET Half(keep(_)) ==
            LET rows == SelectIdx(p, LAMBDA i : keep(p[i].alpha))
            IN  [i \in 1..Len(rows) |->
                    [label |-> rows[i].alpha, dist |-> Abs(rows[i].alpha),
                     bp |-> rows[i].bp]]
        DistOf(r) == r.dist
    IN  [pos |-> Half(LAMBDA a : a >= 0),
         neg |-> SortBy(Half(LAMBDA a : a <= 0), DistOf)]

\* The first index of idx (a set of positions) in order, or None.
FirstOf(idx) == IF idx = {} THEN None ELSE Some(SetMin(idx))

\* _find_wall_half_max_ascent: the stream row is no candidate, the row next
\* to it is one; the label of the first candidate that is a wall point.
_find_wall_half_max_ascent(half, fd, dirmap, sl, n, thr) ==
    LET bp == [i \in 1..Len(half) |->
                  IF i = 1 THEN FALSE ELSE IF i = 2 THEN TRUE ELSE half[i].bp]
        hit == FirstOf({i \in 1..Len(half) :
                   bp[i] /\ is_wall_point(half[i].label, fd, dirmap, sl, thr, n)})
    IN  IF hit = None THEN None ELSE Some(half[Val(hit)].label)

\* Every row from a location found to the end of its side is marked.
SetWallpointsOutward(p, locs) ==
    [i \in 1..Len(p) |->
        IF \E l \in locs : /\ l # None
                            /\ Val(l) * p[i].alpha >= 0
                            /\ Abs(p[i].alpha) >= Abs(Val(l))
                            /\ (Val(l) = 0 => p[i].alpha = 0)
        THEN [p[i] EXCEPT !.wallpoint = TRUE]
        ELSE p[i]]

\* `profile.loc[loc, "wallpoint"] = True` for the locations found.
SetWallpoints(p, locs) ==
    [i \in 1..Len(p) |->
        IF Some(p[i].alpha) \in locs THEN [p[i] EXCEPT !.wallpoint = TRUE]
        ELSE p[i]]

classify_profile_max_ascent(p, fd, dirmap, sl, n, thr) ==
    LET halves == split_profile_center(p)
        pos_wall_loc == _find_wall_half_max_ascent(halves.pos, fd, dirmap, sl, n, thr)
        neg_wall_loc == _find_wall_half_max_ascent(halves.neg, fd, dirmap, sl, n, thr)
    IN  SetWallpoints(p, {pos_wall_loc, neg_wall_loc})

\* Twice the median of a sequence of numbers (Series.median).
Median2(s) ==
    LET t == SortBy(s, LAMBDA v : v)
        m == Len(t)
    IN  IF m % 2 = 1 THEN 2 * t[(m + 1) \div 2]
        ELSE t[m \div 2] + t[m \div 2 + 1]

\* (variant: the end point of the interval is returned)
_find_wall_half_end(half, sl, thr) ==
    LET bp == [i \in 1..Len(half) |-> i = 1 \/ i = Len(half) \/ half[i].bp]
        positional_indices == {i \in 1..Len(half) : bp[i]}
        NextPos(i) == SetMin({j \in positional_indices : j > i})
        Slopes(i, j) == [k \in 1..(j - i + 1) |->
                            sl[point_to_pixel(half[i + k - 1].label)]]
        hit == FirstOf({i \in positional_indices :
                   /\ \E j \in positional_indices : j > i
                   /\ Median2(Slopes(i, NextPos(i))) > 2 * thr})
    IN  IF hit = None THEN None ELSE Some(half[NextPos(Val(hit))].label)

\* _find_wall_half: the stream row and the last row are break points; the
\* label of the first break point whose interval to the next break point has
\* a median slope above the threshold.
_find_wall_half(half, sl, thr) ==
    LET bp == [i \in 1..Len(half) |-> i = 1 \/ i = Len(half) \/ half[i].bp]
        positional_indices == {i \in 1..Len(half) : bp[i]}
        NextPos(i) == SetMin({j \in positional_indices : j > i})
        Slopes(i, j) == [k \in 1..(j - i + 1) |->
                            sl[point_to_pixel(half[i + k - 1].label)]]
        hit == FirstOf({i \in positional_indices :
                   /\ \E j \in positional_indices : j > i
                   /\ Median2(Slopes(i, NextPos(i))) > 2 * thr})
    IN  IF hit = None THEN None ELSE Some(half[Val(hit)].label)

classify_profile_slope_threshold(p, sl, thr) ==
    LET halves == split_profile_center(p)
        pos_wall_loc == _find_wall_half(halves.pos, sl, thr)
        neg_wall_loc == _find_wall_half(halves.neg, sl, thr)
    IN  SetWallpoints(p, {pos_wall_loc, neg_wall_loc})

WallIdle ==
    /\ fdir = [px \in Pixels |-> 0]
    /\ slope = [px \in Pixels |-> 0]
    /\ num_cells = 1 /\ slope_threshold = 0
    /\ xs_profile = <<>> /\ classified = <<>>
    /\ tr_path = <<>> /\ tr_count = 0
    /\ wl_pc = "idle"

\* trace_flowpath is called on a direction raster from a start cell.
TraceInit ==
    /\ fdir \in [Pixels -> TraceCodes]
    /\ slope = [px \in Pixels |-> 0]
    /\ num_cells \in 1..MaxSteps
    /\ slope_threshold = 0
    /\ xs_profile = <<>> /\ classified = <<>>
    /\ \E px \in Pixels : tr_path = <<px>>
    /\ tr_count = 0
    /\ wl_pc = "trace"

\* One profile with its break-point column, on the max-ascent direction
\* raster and the slope raster.  Both methods overwrite the break-point flag
\* of the stream row before they read it, so it starts FALSE.  The stream
\* cell and the outermost cell point outward: a path stops at a cell of
\* direction 0 between them, or leaves the raster at the outermost cell.
WallInit ==
    /\ fdir \in {fd \in [Pixels -> AscentCodes] :
                    fd[<<0, 0>>] = 2 /\ fd[<<0, StripLen - 1>>] = 2}
    /\ slope \in [Pixels -> SlopeLevels]
    /\ num_cells \in PathLengths
    /\ slope_threshold \in SlopeLevels
    /\ \E bps \in [((-WallAlpha)..WallAlpha) \ {0} -> BOOLEAN] :
          xs_profile = [i \in 1..(2 * WallAlpha + 1) |->
                           LET a == i - WallAlpha - 1
                           IN  XsRow(a, IF a = 0 THEN FALSE ELSE bps[a])]
    /\ classified = <<>>
    /\ tr_path = <<>> /\ tr_count = 0
    /\ wl_pc = "profile"

\* One pass of the loop of _trace_flowpath_numba that appends a cell.
TraceAdvance ==
    /\ wl_pc = "trace"
    /\ ~CountReached(tr_count, num_cells)
    /\ fdir[tr_path[Len(tr_path)]] # 0
    /\ InRaster(NextCell(tr_path[Len(tr_path)], fdir, DIRMAPS_wbt))
    /\ tr_path' = Append(tr_path, NextCell(tr_path[Len(tr_path)], fdir, DIRMAPS_wbt))
    /\ tr_count' = tr_count + 1
    /\ UNCHANGED <<fdir, slope, num_cells, slope_threshold, xs_profile, classified, wl_pc>>
    /\ UNCHANGED notWl

\* The pass that breaks out of the loop: the path is returned.
TraceBreak ==
    /\ wl_pc = "trace"
    /\ \/ CountReached(tr_count, num_cells)
       \/ fdir[tr_path[Len(tr_path)]] = 0
       \/ ~InRaster(NextCell(tr_path[Len(tr_path)], fdir, DIRMAPS_wbt))
    /\ wl_pc' = "returned"
    /\ UNCHANGED <<fdir, slope, num_cells, slope_threshold, xs_profile, classified,
                   tr_path, tr_count>>
    /\ UNCHANGED notWl

ClassifyMaxAscent ==
    /\ wl_pc = "profile"
    /\ classified' = classify_profile_max_ascent(xs_profile, fdir, DIRMAPS_wbt,
                                                 slope, num_cells, slope_threshold)
    /\ wl_pc' = "max_ascent"
    /\ UNCHANGED <<fdir, slope, num_cells, slope_threshold, xs_profile, tr_path, tr_count>>
    /\ UNCHANGED notWl

ClassifySlopeThreshold ==
    /\ wl_pc = "profile"
    /\ classified' = classify_profile_slope_threshold(xs_profile, slope, slope_threshold)
    /\ wl_pc' = "slope_threshold"
    /\ UNCHANGED <<fdir, slope, num_cells, slope_threshold, xs_profile, tr_path, tr_count>>
    /\ UNCHANGED notWl

(***************************************************************************)
(* Subbasin relabelling (valleyx/terrain_analyzer.py, subbasins)           *)
(*                                                                         *)
(* Raster values are kept as twice their value, so that adding 0.5 is      *)
(* adding 1: the watershed of the k-th pour point holds Twice(k), a cell   *)
(* outside every watershed holds Twice(0), which stands for the nodata     *)
(* value.                                                                  *)
(***************************************************************************)
NumPourPoints == 3

MaxStreamID == 3

WatershedCells == 3

Twice(v) == 2 * v

\* No offset: keys and watershed ordinals stay integers.
AddNothing(v2) == v2

\* `+ 0.5`, on doubled values.
AddHalf(v2) == v2 + 1

\* `mapping[ind + 0.5] = streamID` for ind = 1, 2, ...: the keys in insertion
\* order, and the value of each.
MappingKeys(index) == [k \in 1..Len(index) |-> AddHalf(Twice(k))]

MappingValue(index, k) == Twice(index[k])

\* `for key, value in mapping.items(): data[data == key] = value`, from the
\* k-th item on.
RECURSIVE RelabelFrom(_, _, _)
RelabelFrom(data, index, k) ==
    IF k > Len(index) THEN data
    ELSE RelabelFrom([c \in DOMAIN data |->
                         IF data[c] = MappingKeys(index)[k]
                         THEN MappingValue(index, k) ELSE data[c]],
                     index, k + 1)

\* The relabelling of TerrainAnalyzer.subbasins.
relabel_subbasins(data, index) ==
    RelabelFrom([c \in DOMAIN data |-> AddHalf(data[c])], index, 1)

\* pour_points.index: distinct stream IDs in the order of the pour points.
PourPointIndexes ==
    {s \in SeqsUpTo(1..MaxStreamID, 1, NumPourPoints) :
        \A i, j \in 1..Len(s) : i # j => s[i] # s[j]}

SubbasinIdle ==
    /\ pour_index = <<>> /\ watershed = <<>> /\ sb_out = <<>> /\ sb_pc = "idle"

\* wbt.watershed has labelled each cell with the ordinal of its pour point.
SubbasinInit ==
    /\ pour_index \in PourPointIndexes
    /\ watershed \in [1..WatershedCells -> {Twice(k) : k \in 0..Len(pour_index)}]
    /\ sb_out = <<>>
    /\ sb_pc = "loaded"

RelabelSubbasins ==
    /\ sb_pc = "loaded"
    /\ sb_out' = relabel_subbasins(watershed, pour_index)
    /\ sb_pc' = "returned"
    /\ UNCHANGED <<pour_index, watershed>>
    /\ UNCHANGED notSb

(***************************************************************************)
(* invert_dem (valleyx/floor/flood_extent/classify_profile_max_ascent.py)  *)
(***************************************************************************)
DemCells == 3

MaxElev == 2

Elevations == (-1)..MaxElev

RasterMax(r) == SetMax({r[c] : c \in DOMAIN r})

RasterMin(r) == SetMin({r[c] : c \in DOMAIN r})

\* -1 * (dem - dem.max()) without the re-basing on dem.min().
invert_dem_unbased(d) == [c \in DOMAIN d |-> -1 * (d[c] - RasterMax(d))]

\* -1 * (dem - dem.max().item()) + dem.min().item()
invert_dem(d) == [c \in DOMAIN d |-> -1 * (d[c] - RasterMax(d)) + RasterMin(d)]

DemIdle ==
    /\ dem_in = <<>> /\ inverted_dem = <<>> /\ inverted_twice = <<>> /\ dm_pc = "idle"

DemInit ==
    /\ dem_in \in [1..DemCells -> Elevations]
    /\ inverted_dem = <<>> /\ inverted_twice = <<>>
    /\ dm_pc = "dem"

InvertDem ==
    /\ dm_pc = "dem"
    /\ inverted_dem' = invert_dem(dem_in)
    /\ dm_pc' = "inverted"
    /\ UNCHANGED <<dem_in, inverted_twice>>
    /\ UNCHANGED notDm

\* invert_dem applied to its own result.
InvertAgain ==
    /\ dm_pc = "inverted"
    /\ inverted_twice' = invert_dem(inverted_dem)
    /\ dm_pc' = "twice"
    /\ UNCHANGED <<dem_in, inverted_dem>>
    /\ UNCHANGED notDm

(***************************************************************************)
(* preprocess_profiles: the loop over the (streamID, xsID) groups of the   *)
(* cross sections and the concatenation of the profiles it keeps.          *)
(***************************************************************************)
SideReach == 2         \* a sampled cross section has rows to alpha -SideReach and SideReach
GroupCounts == {0, 1, 2}   \* the number of (streamID, xsID) groups

\* Elevations are non-negative; a negative conditioned_dem stands for
\* not-a-number (no elevation observed at the point).
IsNaN(v) == v < 0

\* _remove_duplicates: the rows equal to an earlier row on every column but
\* geom, alpha and pointID are dropped (keep = 'first').
_remove_duplicates(p) ==
    LET Same(a, b) == /\ a.flow_path = b.flow_path
                      /\ a.hillslope = b.hillslope
                      /\ a.conditioned_dem = b.conditioned_dem
                      /\ a.hand = b.hand
    IN  SelectIdx(p, LAMBDA i : ~(\E j \in 1..(i - 1) : Same(p[j], p[i])))

\* profile[~np.isnan(profile['conditioned_dem'])]
DropNaN(p) == SelectIdx(p, LAMBDA i : ~IsNaN(p[i].conditioned_dem))

\* (variant: a profile is skipped only when both sides are too short)
too_short_both(p, min_distance) ==
    LET alphas == {p[i].alpha : i \in 1..Len(p)}
    IN  SetMin(alphas) > -min_distance /\ SetMax(alphas) < min_distance

\* profile['alpha'].min() > -min_distance or profile['alpha'].max() < min_distance
too_short(p, min_distance) ==
    LET alphas == {p[i].alpha : i \in 1..Len(p)}
    IN  SetMin(alphas) > -min_distance \/ SetMax(alphas) < min_distance

\* The body of the loop for one group, with the calibration c that
\* _recenter_on_stream finds: None when the profile is skipped, else the
\* profile that is appended to processed_dfs.
preprocess_one(p, c, config) ==
    LET recentered == DropNaN(_recenter_on_stream(_remove_duplicates(p), c))
        ridge == _filter_ridge_crossing(recentered, config.min_hand_jump, config.ratio)
        peaks == IF config.min_peak_prominence # None
                 THEN _filter_by_peaks(ridge, Val(config.min_peak_prominence))
                 ELSE ridge
        gaps == _ensure_no_gaps(peaks)
    IN  IF too_short(recentered, config.min_distance) THEN None
        ELSE IF too_short(gaps, config.min_distance) THEN None
        ELSE Some(gaps)

\* The cross sections fed to the loop.  A side is sampled at alpha 1, 2, ...
\* with elevation and HAND rising away from the stream row (plain); or its
\* HAND jumps at one row (ridge); or its outermost row has no elevation
\* (nan), repeats the values of the row before it (dup) or lies beyond a
\* stretch of missing samples (gap); or its elevation peaks one row before
\* the end (peak); or the stream cell is the row at alpha 1 (offcentre).
SidePattern(kind, at) == [kind |-> kind, at |-> at]

PosPatterns ==
    {SidePattern("plain", 0), SidePattern("offcentre", 1),
     SidePattern("peak", SideReach - 1)}
        \cup {SidePattern("ridge", j) : j \in 1..SideReach}
        \cup {SidePattern(k, SideReach) : k \in {"nan", "dup", "gap"}}

NegPatterns == {SidePattern("plain", 0), SidePattern("ridge", SideReach)}

SampleRow(a, pat) ==
    LET d == Abs(a)
        id == a + SideReach + 1
        hs == IF a < 0 THEN 1 ELSE 2
    IN  IF a = 0
        THEN IF pat.kind = "offcentre" THEN Row(id, 0, FALSE, 1, 0, 0)
             ELSE Row(id, 0, TRUE, 0, 0, 0)
        ELSE IF pat.kind = "offcentre" /\ d = pat.at THEN Row(id, a, TRUE, 0, 0, 0)
        ELSE IF pat.kind = "ridge" /\ d >= pat.at THEN Row(id, a, FALSE, hs, d, d + 3)
        ELSE IF pat.kind = "nan" /\ d = pat.at THEN Row(id, a, FALSE, hs, -1, d)
        ELSE IF pat.kind = "dup" /\ d = pat.at THEN Row(id, a, FALSE, hs, d - 1, d - 1)
        ELSE IF pat.kind = "gap" /\ d = pat.at THEN Row(id, a + 3, FALSE, hs, d, d)
        ELSE IF pat.kind = "peak" /\ d = pat.at THEN Row(id, a, FALSE, hs, SideReach + 1, d)
        ELSE Row(id, a, FALSE, hs, d, d)

SampleProfile(pos, neg) ==
    [i \in 1..(2 * SideReach + 1) |->
        LET a == i - SideReach - 1
        IN  SampleRow(a, IF a < 0 THEN neg ELSE pos)]

SampleProfiles == {SampleProfile(pos, neg) : pos \in PosPatterns, neg \in NegPatterns}

PreprocessConfigs ==
    [min_hand_jump : {0}, ratio : {[n |-> 2, d |-> 1]},
     min_distance : {SideReach - 1, SideReach},
     min_peak_prominence : {None, Some(1)}]

PreprocessIdle ==
    /\ pp_groups = <<>> /\ pp_cfg = <<>> /\ pp_next = 0
    /\ processed_dfs = <<>> /\ pp_out = <<>> /\ pp_pc = "idle"

PreprocessInit ==
    /\ pp_groups \in UNION {[1..n -> SampleProfiles] : n \in GroupCounts}
    /\ pp_cfg \in PreprocessConfigs
    /\ pp_next = 1
    /\ processed_dfs = <<>>
    /\ pp_out = <<>>
    /\ pp_pc = "loop"

\* One pass of the loop over the groups.
ProcessProfile ==
    /\ pp_pc = "loop"
    /\ pp_next <= Len(pp_groups)
    /\ \E c \in CalibrationAlphas(_remove_duplicates(pp_groups[pp_next])) :
          LET kept == preprocess_one(pp_groups[pp_next], c, pp_cfg)
          IN  processed_dfs' = IF kept = None THEN processed_dfs
                               ELSE Append(processed_dfs, Val(kept))
    /\ pp_next' = pp_next + 1
    /\ UNCHANGED <<pp_groups, pp_cfg, pp_out, pp_pc>>
    /\ UNCHANGED notPp

\* return gpd.GeoDataFrame(pd.concat(processed_dfs, ignore_index=True)):
\* pd.concat raises ValueError ("No objects to concatenate") on an empty list.
ConcatProfiles ==
    /\ pp_pc = "loop"
    /\ pp_next > Len(pp_groups)
    /\ IF processed_dfs = <<>>
       THEN pp_pc' = "raised" /\ pp_out' = pp_out
       ELSE pp_pc' = "returned" /\ pp_out' = Concat(processed_dfs)
    /\ UNCHANGED <<pp_groups, pp_cfg, pp_next, processed_dfs>>
    /\ UNCHANGED notPp

(***************************************************************************)
(* The categorical floor raster of valleyx/label_floors.py: the codes are  *)
(* written over a raster of zeros, then the cells away from the flow paths *)
(* are cleared.                                                            *)
(***************************************************************************)
\* combined.data[mask] = v
Assign(raster, mask, v) == [c \in Cells |-> IF c \in mask THEN v ELSE raster[c]]

\* (variant: the foundation written after the flow paths)
label_floors_base_last(floors, foundation, flow_path) ==
    LET zeros == [c \in Cells |-> 0]
        coded == Assign(Assign(Assign(zeros, floors, 3), flow_path, 1), foundation, 2)
        result == connected({c \in Cells : coded[c] > 0}, flow_path)
    IN  Assign(coded, Cells \ result, 0)

\* label_floors, lines 65-78: 0 = not floor, 1 = flowpath, 2 = base, 3 = added.
label_floors_codes(floors, foundation, flow_path) ==
    LET zeros == [c \in Cells |-> 0]
        coded == Assign(Assign(Assign(zeros, floors, 3), foundation, 2), flow_path, 1)
        result == connected({c \in Cells : coded[c] > 0}, flow_path)
    IN  Assign(coded, Cells \ result, 0)

\* The masks handed to the labelling: a channel along a row, a foundation of
\* at most one cell, hillslope floors of one cell or one row.
ChannelMasks == {{<<r, c>> : c \in 1..len} : r \in Rows, len \in 0..GridW}
FoundationMasks == {{}} \cup {{c} : c \in Cells}
FloorMasks == FoundationMasks \cup {{<<r, c>> : c \in Cols} : r \in Rows}

LabelIdle ==
    /\ lb_floors = {} /\ lb_foundation = {} /\ lb_flow_path = {}
    /\ lb_codes = <<>> /\ lb_pc = "idle"

LabelInit ==
    /\ lb_floors \in FloorMasks
    /\ lb_foundation \in FoundationMasks
    /\ lb_flow_path \in ChannelMasks
    /\ lb_codes = <<>>
    /\ lb_pc = "masks"

LabelFloors ==
    /\ lb_pc = "masks"
    /\ lb_codes' = label_floors_codes(lb_floors, lb_foundation, lb_flow_path)
    /\ lb_pc' = "labelled"
    /\ UNCHANGED <<lb_floors, lb_foundation, lb_flow_path>>
    /\ UNCHANGED notLb

(***************************************************************************)
(* foundation(): the low-slope regions joined to the buffered flow paths,  *)
(* the flow-path cells forced in, then a binary closing.  The smoothing,   *)
(* the segmentation into regions and the region medians are numerical      *)
(* steps outside the model: their result, the mask `thresholded`, and the  *)
(* mask of the cells with slope > apst are inputs.                         *)
(***************************************************************************)
FoundationGrid == 13   \* the raster has FoundationGrid rows and columns
DilationRadius == 5    \* isotropic_dilation(fp, radius=5)
StructureRadius == 2   \* structure = np.ones((5, 5)): two cells each way
ClosingIterations == 3 \* binary_closing(..., iterations=3)

FCells == {<<r, c>> : r \in 1..FoundationGrid, c \in 1..FoundationGrid}

\* skimage isotropic_dilation: the cells within Euclidean distance radius of
\* a cell of the mask.
isotropic_dilation(S, radius) ==
    {c \in FCells :
        \E d \in S : (c[1] - d[1]) * (c[1] - d[1]) + (c[2] - d[2]) * (c[2] - d[2])
                        <= radius * radius}

\* scipy.ndimage.binary_dilation and binary_erosion with a square structure
\* of ones, repeated; the cells beyond the raster count as unset
\* (border_value = 0).
RECURSIVE DilateTimes(_, _, _)
DilateTimes(S, r, iterations) ==
    IF iterations = 0 THEN S
    ELSE DilateTimes({c \in FCells : \E d \in S : Dist8(c, d) <= r}, r, iterations - 1)

RECURSIVE ErodeTimes(_, _, _)
ErodeTimes(S, r, iterations) ==
    IF iterations = 0 THEN S
    ELSE ErodeTimes({c \in FCells : \A dr \in (-r)..r, dc \in (-r)..r :
                                       <<c[1] + dr, c[2] + dc>> \in S},
                    r, iterations - 1)

\* binary_closing(input, structure, iterations): the dilation repeated, then
\* the erosion repeated.
binary_closing_iter(S, r, iterations) ==
    ErodeTimes(DilateTimes(S, r, iterations), r, iterations)

\* _connectivity: the regions joined to the buffered flow paths, without the
\* steep cells of the buffer, with the flow-path cells forced in.
_connectivity(thresholded, flowpaths, steep) ==
    LET dilated == isotropic_dilation(flowpaths, DilationRadius)
        result == connected(thresholded, dilated)
    IN  (result \ (dilated \cap steep)) \cup flowpaths

foundation(thresholded, flowpaths, steep) ==
    binary_closing_iter(_connectivity(thresholded, flowpaths, steep),
                        StructureRadius, ClosingIterations)

\* A channel that enters the raster at its left border and runs along a row;
\* the terrain is low-slope everywhere, nowhere, or in its upper half.
FoundationChannels ==
    {{<<r, c>> : c \in 1..len} : r \in 1..FoundationGrid, len \in 1..FoundationGrid}

UpperHalf == {c \in FCells : 2 * c[1] <= FoundationGrid}

FoundationTerrains ==
    {[thresholded |-> {}, steep |-> {}],
     [thresholded |-> FCells, steep |-> {}],
     [thresholded |-> {}, steep |-> FCells],
     [thresholded |-> UpperHalf, steep |-> FCells \ UpperHalf]}

FoundationIdle ==
    /\ fd_thresholded = {} /\ fd_steep = {} /\ fd_flowpaths = {}
    /\ fd_base = {} /\ fd_pc = "idle"

FoundationInit ==
    /\ \E t \in FoundationTerrains :
          fd_thresholded = t.thresholded /\ fd_steep = t.steep
    /\ fd_flowpaths \in FoundationChannels
    /\ fd_base = {}
    /\ fd_pc = "regions"

Foundation ==
    /\ fd_pc = "regions"
    /\ fd_base' = foundation(fd_thresholded, fd_flowpaths, fd_steep)
    /\ fd_pc' = "returned"
    /\ UNCHANGED <<fd_thresholded, fd_steep, fd_flowpaths>>
    /\ UNCHANGED notFd

(***************************************************************************)
(* The boundary-point refinement loop of polygon_centerline                 *)
(* (tools/centerline.py), taken when dist_tolerance is given.  One step is  *)
(* one pass of the `while True` loop.  What the Voronoi graph of the pass   *)
(* yields is an input of the pass: whether a boundary node lies within      *)
(* dist_tolerance of the source, and of the target.                         *)
(***************************************************************************)
MaxNumPoints == 11999

\* The num_points arguments: reach delineation passes 1500.
InitialNumPoints == {1, 3, 50, 1500, 6000, MaxNumPoints, MaxNumPoints + 1}

\* The body of the loop without the doubling (the pass is then repeated with
\* the same points).
refine_pass_same_points(num_points, source, target, near_source, near_target) ==
    IF num_points > MaxNumPoints
    THEN [num_points |-> num_points, pc |-> "break"]
    ELSE IF source /\ ~near_source
    THEN [num_points |-> num_points, pc |-> "continue"]
    ELSE IF target /\ ~near_target
    THEN [num_points |-> num_points, pc |-> "continue"]
    ELSE [num_points |-> num_points, pc |-> "break"]

\* The body of the loop after the boundary nodes are computed: source and
\* target say whether the argument is given.
refine_pass(num_points, source, target, near_source, near_target) ==
    IF num_points > MaxNumPoints
    THEN [num_points |-> num_points, pc |-> "break"]
    ELSE IF source /\ ~near_source
    THEN [num_points |-> 2 * num_points, pc |-> "continue"]
    ELSE IF target /\ ~near_target
    THEN [num_points |-> 2 * num_points, pc |-> "continue"]
    ELSE [num_points |-> num_points, pc |-> "break"]

RefineIdle ==
    /\ cp_initial = 0 /\ cp_num_points = 0 /\ cp_passes = 0
    /\ cp_source = FALSE /\ cp_target = FALSE /\ cp_pc = "idle"

RefineInit ==
    /\ cp_initial \in InitialNumPoints
    /\ cp_num_points = cp_initial
    /\ cp_passes = 0
    /\ cp_source \in BOOLEAN
    /\ cp_target \in BOOLEAN
    /\ cp_pc = "loop"

RefinePass ==
    /\ cp_pc = "loop"
    /\ \E near_source, near_target \in BOOLEAN :
          LET pass == refine_pass(cp_num_points, cp_source, cp_target,
                                  near_source, near_target)
          IN  /\ cp_num_points' = pass.num_points
              /\ cp_pc' = IF pass.pc = "break" THEN "done" ELSE "loop"
    /\ cp_passes' = cp_passes + 1
    /\ UNCHANGED <<cp_initial, cp_source, cp_target>>
    /\ UNCHANGED notCp

(***************************************************************************)
(* Specifications.                                                         *)
(***************************************************************************)
\* Every part but the one that starts with the predicate named is idle.
OthersIdle(init) ==
    /\ init = "FlowlineInit" \/ FlowlineIdle
    /\ init \in {"RecenterInit", "FilterInit"} \/ ProfileIdle
    /\ init \in {"ReachInit", "ShortReachInit", "CenterlineInit", "PourInit"} \/ ReachIdle
    /\ init \in {"FloorInit", "FloodInit"} \/ FloorIdle
    /\ init \in {"TerrainInit", "ExtractInit"} \/ TempIdle
    /\ init \in {"TraceInit", "WallInit"} \/ WallIdle
    /\ init = "SubbasinInit" \/ SubbasinIdle
    /\ init = "DemInit" \/ DemIdle
    /\ init = "PreprocessInit" \/ PreprocessIdle
    /\ init = "LabelInit" \/ LabelIdle
    /\ init = "FoundationInit" \/ FoundationIdle
    /\ init = "RefineInit" \/ RefineIdle

InitFlowline == FlowlineInit /\ OthersIdle("FlowlineInit")

NextFlowline == ValidateFlowline

SpecFlowline == InitFlowline /\ [][NextFlowline]_vars

InitRecenter == RecenterInit /\ OthersIdle("RecenterInit")

NextRecenter == Recenter

SpecRecenter == InitRecenter /\ [][NextRecenter]_vars

InitProfile == FilterInit /\ OthersIdle("FilterInit")

NextProfile == FilterRidgeCrossing \/ FilterByPeaks \/ EnsureNoGaps

SpecProfile == InitProfile /\ [][NextProfile]_vars

InitReach == ReachInit /\ OthersIdle("ReachInit")

NextReach == ComputeReaches \/ RelabelFlowpaths

SpecReach == InitReach /\ [][NextReach]_vars

\* _compute_reaches and _relabel_flowpaths on short segments.
InitShortReach == ShortReachInit /\ OthersIdle("ShortReachInit")
SpecShortReach == InitShortReach /\ [][NextReach]_vars

\* _compute_reaches on segments with any boundary nodes.
InitCenterline == CenterlineInit /\ OthersIdle("CenterlineInit")
SpecCenterline == InitCenterline /\ [][NextReach]_vars

Init == FloorInit /\ OthersIdle("FloorInit")

Next == DetermineFloodExtents \/ ApplyFloodThresholds \/ CombineFloors

Spec == Init /\ [][Next]_vars

InitFlood == FloodInit /\ OthersIdle("FloodInit")

SpecFlood == InitFlood /\ [][Next]_vars

InitTerrain == TerrainInit /\ OthersIdle("TerrainInit")

NextTerrain == StartOperation \/ WriteInput \/ RunTool \/ LoadResults

SpecTerrain == InitTerrain /\ [][NextTerrain]_vars

InitExtract == ExtractInit /\ OthersIdle("ExtractInit")

NextExtract ==
    \/ SetupWbt \/ StartOperation \/ WriteInput \/ RunTool \/ LoadResults
    \/ StageEnds \/ RemoveWorkDir

SpecExtract == InitExtract /\ [][NextExtract]_vars

\* trace_flowpath, one loop pass at a time; the loop is never suspended.
InitTrace == TraceInit /\ OthersIdle("TraceInit")
NextTrace == TraceAdvance \/ TraceBreak
SpecTrace == InitTrace /\ [][NextTrace]_vars /\ WF_vars(NextTrace)

\* One profile classified by either method.
InitWall == WallInit /\ OthersIdle("WallInit")
NextWall == ClassifyMaxAscent \/ ClassifySlopeThreshold
SpecWall == InitWall /\ [][NextWall]_vars

\* The relabelling at the end of TerrainAnalyzer.subbasins.
InitSubbasin == SubbasinInit /\ OthersIdle("SubbasinInit")
NextSubbasin == RelabelSubbasins
SpecSubbasin == InitSubbasin /\ [][NextSubbasin]_vars

\* invert_dem, once and on its own result.
InitDem == DemInit /\ OthersIdle("DemInit")
NextDem == InvertDem \/ InvertAgain
SpecDem == InitDem /\ [][NextDem]_vars

InitPreprocess == PreprocessInit /\ OthersIdle("PreprocessInit")
NextPreprocess == ProcessProfile \/ ConcatProfiles
SpecPreprocess == InitPreprocess /\ [][NextPreprocess]_vars

InitLabel == LabelInit /\ OthersIdle("LabelInit")
NextLabel == LabelFloors
SpecLabel == InitLabel /\ [][NextLabel]_vars

InitRelabel == PourInit /\ OthersIdle("PourInit")
NextRelabel == RelabelByPourPoints
SpecRelabel == InitRelabel /\ [][NextRelabel]_vars

InitFoundation == FoundationInit /\ OthersIdle("FoundationInit")
NextFoundation == Foundation
SpecFoundation == InitFoundation /\ [][NextFoundation]_vars

\* The loop runs in one sequential call, which keeps executing: weak fairness
\* of the pass.
InitRefine == RefineInit /\ OthersIdle("RefineInit")
NextRefine == RefinePass
SpecRefine == InitRefine /\ [][NextRefine]_vars /\ WF_vars(RefinePass)

(***************************************************************************)
(* The claims.                                                             *)
(***************************************************************************)
\* C1: in the mask label_floors returns, every floor cell is joined to a
\* flow-path cell by a path of 8-adjacent floor cells, the cells the final
\* hole fill adds included.
C1_FloorConnected ==
    lf_pc = "done" =>
        combined = Reachable(combined, basin.flow_paths, 2)

\* label_floors returned a mask to which the hole fill added a cell, with the
\* slope filter on.
C1_Witness ==
    /\ lf_pc = "done"
    /\ cfg.max_fill_area # None
    /\ cfg.max_floor_slope # None
    /\ combined # label_floors(basin, foundation_floor, flood_extent_floor,
                               cfg.max_floor_slope, None)

\* C2: every flowline validate_flowline returns has, at its first coordinate,
\* a flow accumulation no higher than at its last coordinate, and it is the
\* input or the reversed input.
C2_Orientation ==
    fl_pc = "returned" =>
        /\ flow_acc[fl_out[1]] <= flow_acc[fl_out[Len(fl_out)]]
        /\ fl_out \in {flowline, Reverse(flowline)}

\* A flowline drawn upstream-last was reversed and returned.
C2_Witness ==
    /\ fl_pc = "returned"
    /\ flow_acc[flowline[1]] > flow_acc[flowline[Len(flowline)]]
    /\ fl_out = Reverse(flowline)

Alphas(p) == [i \in 1..Len(p) |-> p[i].alpha]

\* C3: applying _recenter_on_stream twice yields the same alpha values as
\* applying it once, whichever of the three cases picks the calibration point.
C3_RecenterIdempotent ==
    pf_pc = "twice" => Alphas(profile) = Alphas(recentered_once)

\* A profile with several stream points, none of them at alpha 0, was shifted
\* by the first application and recentered again.
C3_Witness ==
    /\ pf_pc = "twice"
    /\ Cardinality({i \in 1..Len(profile) : profile[i].flow_path}) > 1
    /\ \E i \in 1..Len(profile) :
          profile[i].alpha # profile[i].pointID - MaxAlpha - 1

SidesAgree ==
    /\ PosSide(profile) = PosSide(profile_pos)
    /\ NegSide(profile) = NegSide(profile_neg)

C5_LabelsDistinctAcrossSegments ==
    rc_pc = "done" =>
        \A c1, c2 \in DOMAIN all_flowpath_cells :
            c1[1] # c2[1] => new_fp[c1] # new_fp[c2]

\* The wall points of the table that lie in subbasin s.
WallPointsOf(s) ==
    IF boundary_pts = None THEN <<>>
    ELSE SelectSeq(boundary_pts, LAMBDA p : p.streamID = s)

\* The rows a threshold table has for the pairs with fewer than min_points
\* wall points.
ShortRows(table) ==
    {i \in 1..Len(table) :
        boundary_pts = None
        \/ Len(PointsOf(boundary_pts, table[i].streamID,
                        table[i].hillslopeID)) < cfg.min_points}

\* C6: for the wall points of a pair and a fixed buffer, the threshold
\* determine_flood_extents computes at the configured percentile is no lower
\* than the threshold it computes at any lower percentile.
C6_ThresholdMonotone ==
    lf_pc = "determined" =>
        \A q \in 0..cfg.percentile :
            LET lower == determine_flood_extents(
                             boundary_pts, basin.subbasins, basin.hillslopes,
                             cfg.min_points, q, cfg.buffer)
            IN  \A i \in 1..Len(thresholds) :
                    thresholds[i].threshold.kind = "num" =>
                        /\ lower[i].threshold.kind = "num"
                        /\ lower[i].threshold.v <= thresholds[i].threshold.v

\* A pair with enough wall points whose threshold at the configured
\* percentile is strictly above its threshold at percentile 0.
C6_Witness ==
    /\ lf_pc = "determined"
    /\ LET lowest == determine_flood_extents(
                          boundary_pts, basin.subbasins, basin.hillslopes,
                          cfg.min_points, 0, cfg.buffer)
       IN  \E i \in 1..Len(thresholds) :
               /\ thresholds[i].threshold.kind = "num"
               /\ lowest[i].threshold.v < thresholds[i].threshold.v

\* C7: with no wall point in the basin and no default threshold, label_floors
\* completes without raising and returns the foundation mask.
C7_NoWallPointsGivesFoundation ==
    (boundary_pts = None /\ cfg.default_threshold = None) =>
        /\ lf_pc # "TypeError"
        /\ lf_pc = "done" => combined = foundation_floor

\* The subbasins without a wall point, once the default threshold d is
\* filled in and the table applied.
DefaultedSubbasins ==
    IF lf_pc \in {"flooded", "done"} /\ cfg.default_threshold # None
    THEN {s \in {basin.subbasins[c] : c \in Cells} : WallPointsOf(s) = <<>>}
    ELSE {}

AllRowsDefault(s) ==
    \A i \in 1..Len(thresholds) :
        thresholds[i].streamID = s =>
            thresholds[i].threshold
                = T_Num(Val(cfg.default_threshold) * PercentileSteps)

\* C8 as stated: a subbasin without wall points has the default threshold d
\* in every row and apply_flood_thresholds floods exactly its cells with
\* hand <= d.
C8_DefaultFloodsWholeSubbasin ==
    \A s \in DefaultedSubbasins :
        /\ AllRowsDefault(s)
        /\ {c \in flooded : basin.subbasins[c] = s}
              = {c \in Cells : /\ basin.subbasins[c] = s
                               /\ basin.hand[c] <= Val(cfg.default_threshold)}

\* C8: a subbasin without wall points has the default threshold d in every
\* row, and apply_flood_thresholds floods exactly its cells of a non-zero
\* hillslope with hand <= d; the cells of hillslope 0 have no row.
C8_DefaultFloodsHillslopes ==
    \A s \in DefaultedSubbasins :
        /\ AllRowsDefault(s)
        /\ {c \in flooded : basin.subbasins[c] = s}
              = {c \in Cells : /\ basin.subbasins[c] = s
                               /\ basin.hillslopes[c] # 0
                               /\ basin.hand[c] <= Val(cfg.default_threshold)}

\* A subbasin without wall points, beside one with wall points, that holds
\* channel cells and has been flooded at the default threshold.
C8_Witness ==
    /\ boundary_pts # None
    /\ \E s \in DefaultedSubbasins :
           /\ \E c \in Cells : basin.subbasins[c] = s /\ basin.hillslopes[c] = 0
           /\ \E c \in flooded : basin.subbasins[c] = s /\ basin.hand[c] = 1

\* C9: a pair with fewer than min_points wall points has a missing threshold
\* in the table of determine_flood_extents, and apply_flood_thresholds does
\* not raise, whatever the other pairs hold.
C9_MissingThresholdsSkipped ==
    /\ lf_pc = "determined" =>
           \A i \in ShortRows(thresholds) : thresholds[i].threshold.kind # "num"
    /\ lf_pc # "TypeError"

\* C10: every flow-path cell is floor in the mask label_floors returns, and
\* the mask of a basin with a flow-path cell is not empty.
C10_FlowPathsAreFloor ==
    lf_pc = "done" =>
        /\ basin.flow_paths \subseteq combined
        /\ basin.flow_paths # {} => combined # {}

\* label_floors returned with the slope filter on and a flow-path cell steeper
\* than max_floor_slope.
C10_Witness ==
    /\ lf_pc = "done"
    /\ cfg.max_floor_slope # None
    /\ \E c \in basin.flow_paths : basin.slope[c] > Val(cfg.max_floor_slope)

\* C11: when a terrain operation has returned or raised, whatever the exit
\* path, no file of its manifest is left in the working directory (one
\* instance at work).
C11_TempFilesRemoved ==
    (run[2].op = "none" /\ run[2].todo = <<>>) =>
        (run[1].pc \in {"returned", "raised"} =>
            ManifestOf(run[1]) \cap wd_files = {})

\* C12: when extract_valleys has ended, by returning or by a stage raising,
\* its working directory does not exist.
C12_WorkDirRemoved ==
    run[1].ev \in {"returned", "raised"} => ~wd_exists

\* C13: two instances at work on one working directory have no temp file
\* path in common.
C13_NoSharedTempPath ==
    (run[1].pc \in {"write", "tools", "load"}
        /\ run[2].pc \in {"write", "tools", "load"}) =>
        ManifestOf(run[1]) \cap ManifestOf(run[2]) = {}

\* The rows of the classified profile marked as wall points on one side:
\* sign is 1 for alpha > 0, -1 for alpha < 0.
WallRows(sign) ==
    {i \in 1..Len(classified) :
        classified[i].wallpoint /\ sign * classified[i].alpha > 0}

\* The candidates of the positive side that is_wall_point accepts.
QualifyingPos ==
    {i \in 1..Len(xs_profile) :
        /\ xs_profile[i].alpha > 0
        /\ xs_profile[i].alpha = 1 \/ xs_profile[i].bp
        /\ is_wall_point(xs_profile[i].alpha, fdir, DIRMAPS_wbt, slope,
                         slope_threshold, num_cells)}

\* C14: after classify_profile_max_ascent and after
\* classify_profile_slope_threshold, at most one row with alpha > 0 and at
\* most one row with alpha < 0 has wallpoint = True, and the profile has at
\* most two wall points.
C14_OneWallPointPerSide ==
    wl_pc \in {"max_ascent", "slope_threshold"} =>
        /\ Cardinality(WallRows(1)) <= 1
        /\ Cardinality(WallRows(-1)) <= 1
        /\ Cardinality({i \in 1..Len(classified) : classified[i].wallpoint}) <= 2

\* A profile classified by max ascent with a wall point on each side, where
\* two candidates of the positive side are accepted by is_wall_point.
C14_Witness ==
    /\ wl_pc = "max_ascent"
    /\ Cardinality(WallRows(1)) = 1
    /\ Cardinality(WallRows(-1)) = 1
    /\ Cardinality(QualifyingPos) >= 2

\* The pour point ordinal the watershed raster holds at a cell (0: none).
OrdinalAt(c) == watershed[c] \div 2

\* C15: after the relabelling of TerrainAnalyzer.subbasins every cell of the
\* watershed of the k-th pour point holds the stream ID at position k of
\* pour_points.index, whatever the integer stream IDs are, and two different
\* watersheds end with different IDs.
C15_SubbasinTakesStreamID ==
    sb_pc = "returned" =>
        /\ \A c \in DOMAIN watershed :
              OrdinalAt(c) >= 1 => sb_out[c] = Twice(pour_index[OrdinalAt(c)])
        /\ \A c1, c2 \in DOMAIN watershed :
              (OrdinalAt(c1) >= 1 /\ OrdinalAt(c2) >= 1
                  /\ OrdinalAt(c1) # OrdinalAt(c2)) => sb_out[c1] # sb_out[c2]

\* A relabelled raster where the stream ID of one watershed is the ordinal of
\* another watershed that is relabelled after it, and both have cells.
C15_Witness ==
    /\ sb_pc = "returned"
    /\ \E j, k \in 1..Len(pour_index) :
          /\ j < k /\ pour_index[j] = k
          /\ \E c1, c2 \in DOMAIN watershed : OrdinalAt(c1) = j /\ OrdinalAt(c2) = k

\* C16: invert_dem maps each elevation z to max + min - z; the inverted
\* raster has the minimum and the maximum of the input, reverses the order of
\* every pair of cells, and inverted again is the input.
C16_InvertDem ==
    /\ dm_pc \in {"inverted", "twice"} =>
          /\ \A c \in DOMAIN dem_in :
                inverted_dem[c] = RasterMax(dem_in) + RasterMin(dem_in) - dem_in[c]
          /\ RasterMin(inverted_dem) = RasterMin(dem_in)
          /\ RasterMax(inverted_dem) = RasterMax(dem_in)
          /\ \A c1, c2 \in DOMAIN dem_in :
                dem_in[c1] < dem_in[c2] => inverted_dem[c1] > inverted_dem[c2]
    /\ dm_pc = "twice" => inverted_twice = dem_in

\* A dem inverted twice whose elevations differ and whose minimum is not 0.
C16_Witness ==
    /\ dm_pc = "twice"
    /\ RasterMin(dem_in) # RasterMax(dem_in)
    /\ RasterMin(dem_in) # 0
    /\ inverted_dem # dem_in

\* The segments _compute_reaches has visited.
Visited == SegmentIDs \ {rc_todo[i] : i \in 1..Len(rc_todo)}

\* One boundary node of the segment is the only nearest node of the source
\* and the only nearest node of the target.
SameNearestNode(ID) ==
    \E n \in DOMAIN bn[ID] : \A m \in (DOMAIN bn[ID]) \ {n} :
        /\ bn[ID][n].distance_to_source < bn[ID][m].distance_to_source
        /\ bn[ID][n].distance_to_target < bn[ID][m].distance_to_target

\* C17: when the boundary node nearest the source is the boundary node nearest
\* the target, polygon_centerline returns None and does not raise, and
\* _compute_reaches splits the segment on its flowline and gathers all its
\* flow-path cells.
C17_FallsBackToFlowline ==
    \A ID \in SegmentIDs :
        SameNearestNode(ID) =>
            /\ polygon_centerline(bn[ID]) = {NoCenterline}
            /\ ID \in Visited =>
                  /\ centerlines[ID] = FlowlineAsCenterline
                  /\ \A k \in 1..segments[ID].cells :
                        <<ID, k>> \in DOMAIN all_flowpath_cells

\* _compute_reaches is through: the first segment had one node nearest both
\* ends and was split on its flowline, the second had a centerline path.
C17_Witness ==
    /\ rc_pc = "relabel"
    /\ SameNearestNode(1)
    /\ centerlines[1] = FlowlineAsCenterline
    /\ centerlines[NumSegments].kind = "path"

\* C19: when segment_reaches returns None for a segment, every flow-path cell
\* of the segment gets the same reach_id and, after _relabel_flowpaths, the
\* same composite label.
C19_NoBreakPointsOneReach ==
    \A ID \in Visited :
        (segments[ID].breaks = "none" /\ segments[ID].has_flowline) =>
            \A j, k \in 1..segments[ID].cells :
                /\ all_flowpath_cells[<<ID, j>>] = all_flowpath_cells[<<ID, k>>]
                /\ rc_pc = "done" => new_fp[<<ID, j>>] = new_fp[<<ID, k>>]

\* The flow paths are relabelled; a segment of three cells had no break
\* point, the other segment was split.
C19_Witness ==
    /\ rc_pc = "done"
    /\ segments[1].breaks = "none" /\ segments[1].has_flowline
    /\ segments[1].cells = 3
    /\ \A k \in 1..3 : new_fp[<<1, k>>] = Label(1, 0)
    /\ \E c \in DOMAIN all_flowpath_cells : c[1] # 1 /\ all_flowpath_cells[c] > 0

\* The cell the path of _trace_flowpath_numba ends on.
LastCell == tr_path[Len(tr_path)]

\* The path holds the start cell and at most num_cells further cells.
PathWithinLength ==
    wl_pc \in {"trace", "returned"} => Len(tr_path) <= num_cells + 1

\* A returned path shorter than that ends on a cell of direction 0 or on a
\* cell whose direction leads out of the raster.
ShortPathHasCause ==
    (wl_pc = "returned" /\ Len(tr_path) < num_cells + 1) =>
        \/ fdir[LastCell] = 0
        \/ <<LastCell[1] + DIRMAPS_wbt[fdir[LastCell]][1],
             LastCell[2] + DIRMAPS_wbt[fdir[LastCell]][2]>> \notin Pixels

\* C18: for every direction raster, start cell and num_cells > 0,
\* trace_flowpath returns, its path has at most num_cells + 1 cells, and it
\* has fewer only when the last cell has direction 0 or the next cell lies
\* outside the raster.
C18_TraceTerminates ==
    /\ [](PathWithinLength /\ ShortPathHasCause)
    /\ <>(wl_pc = "returned")

\* A returned path of num_cells + 1 cells that passes one cell twice: only
\* the count ended it.
C18_Witness ==
    /\ wl_pc = "returned"
    /\ Len(tr_path) = num_cells + 1
    /\ \E i, j \in 1..Len(tr_path) : i < j /\ tr_path[i] = tr_path[j]

\* From the cell of the profile point at alpha, num_cells steps along the
\* direction raster stay in the raster, none of them from a cell of
\* direction 0, and the slope of each of the num_cells cells reached is at or
\* above the threshold.
FullSteepPath(alpha) ==
    \E p \in [0..num_cells -> Pixels] :
        /\ p[0] = <<0, Abs(alpha)>>
        /\ \A i \in 0..(num_cells - 1) :
              /\ fdir[p[i]] # 0
              /\ p[i + 1] = <<p[i][1] + DIRMAPS_wbt[fdir[p[i]]][1],
                              p[i][2] + DIRMAPS_wbt[fdir[p[i]]][2]>>
        /\ \A i \in 1..num_cells : slope[p[i]] >= slope_threshold

\* The candidates of one side with such a path: the row next to the stream
\* and the rows flagged bp.
QualifyingRows(sign) ==
    {i \in 1..Len(xs_profile) :
        /\ sign * xs_profile[i].alpha > 0
        /\ Abs(xs_profile[i].alpha) = 1 \/ xs_profile[i].bp
        /\ FullSteepPath(xs_profile[i].alpha)}

\* C20: in the max-ascent method the wall point of a side is the first
\* candidate outward from the stream whose traced path has num_cells cells
\* beyond the start cell, all of slope at or above slope_threshold; a side
\* with no such candidate has no wall point.
C20_FirstQualifyingCandidate ==
    wl_pc = "max_ascent" =>
        \A sign \in {1, -1} :
            IF QualifyingRows(sign) = {} THEN WallRows(sign) = {}
            ELSE WallRows(sign) =
                    {i \in QualifyingRows(sign) :
                        \A j \in QualifyingRows(sign) :
                            Abs(xs_profile[i].alpha) <= Abs(xs_profile[j].alpha)}

\* Two candidates of the positive side qualify, at slopes equal to the
\* threshold, and the nearer one is the wall point; the stream cell is flat.
C20_Witness ==
    /\ wl_pc = "max_ascent"
    /\ slope_threshold = 1
    /\ slope[<<0, 0>>] = 0
    /\ Cardinality(QualifyingRows(1)) >= 2
    /\ \E i \in WallRows(1) : classified[i].alpha = 1

\* The distances from the stream of the candidates of one side: the stream
\* row, the outermost row of the side and the break points between them.
CandidateDistances(sign) ==
    LET side == {Abs(xs_profile[i].alpha) :
                    i \in {k \in 1..Len(xs_profile) : sign * xs_profile[k].alpha >= 0}}
    IN  {d \in side :
            \/ d = 0
            \/ d = SetMax(side)
            \/ \E i \in 1..Len(xs_profile) :
                  xs_profile[i].alpha = sign * d /\ xs_profile[i].bp}

\* The k-th smallest slope of the rows at distances d..e, by counting.
KthSlope(d, e, k) ==
    SetMin({v \in SlopeLevels :
               Cardinality({c \in d..e : slope[<<0, c>>] <= v}) >= k})

\* The median slope of the rows at distances d..e exceeds the threshold.
MedianExceeds(d, e) ==
    LET n == e - d + 1
    IN  IF n % 2 = 1
        THEN KthSlope(d, e, (n + 1) \div 2) > slope_threshold
        ELSE KthSlope(d, e, n \div 2) + KthSlope(d, e, n \div 2 + 1)
                 > 2 * slope_threshold

\* The start distances of the candidate-to-candidate intervals of one side
\* whose median slope exceeds the threshold.
SteepIntervalStarts(sign) ==
    LET cands == CandidateDistances(sign)
    IN  {d \in cands :
            \E e \in cands :
               /\ e > d
               /\ ~(\E m \in cands : d < m /\ m < e)
               /\ MedianExceeds(d, e)}

\* C21: classify_profile_slope_threshold marks, on each side, the start point
\* of the first interval between successive candidates (the break points plus
\* the first and the last point of the side), walking outward, whose median
\* slope exceeds slope_threshold, and marks nothing on a side where no
\* interval exceeds it.
C21_FirstSteepInterval ==
    wl_pc = "slope_threshold" =>
        \A i \in 1..Len(classified) :
            classified[i].wallpoint <=>
                \E sign \in {1, -1} :
                    /\ SteepIntervalStarts(sign) # {}
                    /\ classified[i].alpha = sign * SetMin(SteepIntervalStarts(sign))

\* The positive side has a break point between the stream and its last row:
\* the interval from the stream is not steep, the next one is, and its start
\* is marked; the negative side has no steep interval and no wall point.
C21_Witness ==
    /\ wl_pc = "slope_threshold"
    /\ Cardinality(CandidateDistances(1)) >= 3
    /\ SteepIntervalStarts(1) # {}
    /\ SetMin(SteepIntervalStarts(1)) > 0
    /\ SteepIntervalStarts(-1) = {}
    /\ \E i \in 1..Len(classified) : classified[i].wallpoint /\ classified[i].alpha > 0

\* The rows of one side, walking outward, at which the HAND change over the
\* elevation change from the row before exceeds the ratio and the HAND exceeds
\* min_hand_jump.  The first row of a side has no row before it.
RidgeRows(side) ==
    {i \in 2..Len(side) :
        /\ RatioExceeds(side, i, pf_cfg.ratio)
        /\ side[i].hand > pf_cfg.min_hand_jump}

\* The rows of one side before its first ridge row, the side when it has none.
BeforeRidge(side) ==
    IF RidgeRows(side) = {} THEN side ELSE Head_n(side, SetMin(RidgeRows(side)) - 1)

\* C22: _filter_ridge_crossing keeps, on each side, exactly the rows before
\* the first row whose |HAND change / elevation change| exceeds ratio and
\* whose HAND exceeds min_hand_jump, and leaves a side without such a row
\* unchanged.
C22_CutAtFirstRidge ==
    [][pf_pc = "recentered" /\ pf_pc' = "ridge" =>
          /\ split_profile(profile').pos = BeforeRidge(split_profile(profile).pos)
          /\ split_profile(profile').neg = BeforeRidge(split_profile(profile).neg)]_vars

\* The rows of one side, walking outward, that lie more than max_increment
\* beyond the row before them.
GapRows(side, max_increment) ==
    {i \in 2..Len(side) : side[i].alpha - side[i - 1].alpha > max_increment}

\* The rows of one side before its first gap, the side when it has none.
BeforeGap(side, max_increment) ==
    IF GapRows(side, max_increment) = {} THEN side
    ELSE Head_n(side, SetMin(GapRows(side, max_increment)) - 1)

\* C23: _ensure_no_gaps keeps, on each side, exactly the rows before the first
\* gap, walking outward, that exceeds 3 times the modal alpha spacing of the
\* profile, so that no gap above 3 times the mode remains on a side.
C23_CutAtFirstGap ==
    [][pf_pc = "peaks" /\ pf_pc' = "gaps" =>
          LET max_increment == 3 * ModeOfDiffs(profile)
              before == split_profile(profile)
              after == split_profile(profile')
          IN  /\ after.pos = BeforeGap(before.pos, max_increment)
              /\ after.neg = BeforeGap(before.neg, max_increment)
              /\ GapRows(after.pos, max_increment) = {}
              /\ GapRows(after.neg, max_increment) = {}]_vars

\* The profile has a row at or beyond distance d on each side of the centre.
ReachesBothSides(p, d) ==
    /\ \E i \in 1..Len(p) : p[i].alpha <= -d
    /\ \E i \in 1..Len(p) : p[i].alpha >= d

\* C24: every profile preprocess_profiles keeps, and so every profile whose
\* rows are in the frame it returns, reaches min_distance on both sides of
\* the centre (min alpha <= -min_distance and max alpha >= min_distance)
\* after the recentering and the truncating filters.
C24_OutputReachesMinDistance ==
    /\ \A k \in 1..Len(processed_dfs) :
          ReachesBothSides(processed_dfs[k], pp_cfg.min_distance)
    /\ pp_pc = "returned" =>
          \A r \in 1..Len(pp_out) :
             \E k \in 1..Len(processed_dfs) :
                /\ \E i \in 1..Len(processed_dfs[k]) : processed_dfs[k][i] = pp_out[r]
                /\ ReachesBothSides(processed_dfs[k], pp_cfg.min_distance)

\* Two groups that both reach min_distance as sampled; the ridge filter cut
\* one below it, which was dropped, and the other is returned.
C24_Witness ==
    /\ pp_pc = "returned"
    /\ Len(pp_groups) = 2
    /\ Len(processed_dfs) = 1
    /\ \A k \in 1..2 :
          /\ ReachesBothSides(DropNaN(_remove_duplicates(pp_groups[k])), pp_cfg.min_distance)
          /\ \A i \in 1..Len(pp_groups[k]) :
                pp_groups[k][i].flow_path <=> pp_groups[k][i].alpha = 0
    /\ \E k \in 1..2 : \E i \in 1..Len(pp_groups[k]) :
          pp_groups[k][i].hand > Abs(pp_groups[k][i].alpha)

\* C29: when every profile is discarded by the minimum-extent checks,
\* preprocess_profiles returns an empty frame and does not raise.
C29_EmptyInsteadOfRaising ==
    (pp_pc # "loop" /\ Len(pp_groups) >= 1 /\ processed_dfs = <<>>) =>
        (pp_pc = "returned" /\ pp_out = <<>>)

GentleFloor ==
    {g \in foundation_floor \cup flood_extent_floor :
        ~(basin.slope[g] > Val(cfg.max_floor_slope))}

\* Every cell of the 3 x 3 window of c lies in the raster, on or next to a
\* cell of GentleFloor: the closing fills c in.
EnclosedByGentleFloor(c) ==
    \A dr \in {-1, 0, 1}, dc \in {-1, 0, 1} :
        /\ <<c[1] + dr, c[2] + dc>> \in Cells
        /\ \E g \in GentleFloor : Dist8(<<c[1] + dr, c[2] + dc>>, g) <= 1

CodeByPrecedence(c) ==
    IF c \in lb_flow_path THEN 1
    ELSE IF c \in lb_foundation THEN 2
    ELSE IF c \in lb_floors THEN 3
    ELSE 0

\* C26: in the categorical floor raster a cell is 1 if it is a flow-path
\* cell, else 2 if it is in the foundation, else 3 if it is in a hillslope
\* flood floor, else 0; a cell that no path of 8-adjacent coded cells joins to
\* a flow-path cell is 0; no other value appears.
C26_CodesByPrecedence ==
    lb_pc = "labelled" =>
        LET coded == lb_flow_path \cup lb_foundation \cup lb_floors
            joined == Reachable(coded, lb_flow_path, 2)
        IN  \A c \in Cells :
               /\ lb_codes[c] \in 0..3
               /\ lb_codes[c] = IF c \in joined THEN CodeByPrecedence(c) ELSE 0

\* A flow-path cell that is also flood floor is 1, a foundation cell that is
\* also flood floor is 2, another cell of the flood floor is 3.
C26_Witness ==
    /\ lb_pc = "labelled"
    /\ \E c \in lb_flow_path \cap lb_floors : lb_codes[c] = 1
    /\ \E c \in (lb_foundation \cap lb_floors) \ lb_flow_path : lb_codes[c] = 2
    /\ \E c \in lb_floors \ (lb_foundation \cup lb_flow_path) : lb_codes[c] = 3

\* C27: every flow-path cell given to foundation() is set in the mask it
\* returns, wherever the cell lies in the raster: the closing at the end does
\* not remove a flow-path cell that _connectivity forced in.
C27_FlowPathsInFoundation ==
    fd_pc = "returned" => fd_flowpaths \subseteq fd_base

\* C28: after relabel_flowpaths every cell that was a flow-path cell carries
\* a label above 0, the cells of the first reach included, so that the test
\* flow_paths > 0 still finds every channel cell.
C28_LabelsPositive ==
    rc_pc = "relabelled" => \A c \in FlowpathCells : new_fp[c] > 0

\* The doublings of num_points made so far: every pass but the one that left
\* the loop doubled it.
Doublings == IF cp_pc = "done" THEN cp_passes - 1 ELSE cp_passes

\* The least k with n * 2^k above 11999: the logarithm of 12000 / n, rounded up.
LogBound(n) == CHOOSE k \in 0..14 : n * 2^k > MaxNumPoints /\
                   \A j \in 0..(k - 1) : n * 2^j <= MaxNumPoints

\* C30: the refinement loop of polygon_centerline terminates: the loop is
\* left eventually; num_points is the argument doubled once per pass that
\* found no boundary node near the source or the target; the doublings never
\* exceed the logarithm of 12000 / initial num_points; and a pass that runs
\* with num_points above 11999 leaves the loop.
C30_RefinementTerminates ==
    /\ <>(cp_pc = "done")
    /\ [](cp_pc # "idle" =>
            /\ cp_num_points = cp_initial * 2^Doublings
            /\ Doublings <= LogBound(cp_initial))
    /\ [][(cp_pc = "loop" /\ cp_num_points > MaxNumPoints) => cp_pc' = "done"]_vars

\* The call of reach delineation (num_points 1500) left the loop at the cap
\* after three doublings, on its fourth pass.
C30_Witness ==
    /\ cp_pc = "done" /\ cp_initial = 1500 /\ cp_source /\ cp_target
    /\ cp_passes = 4 /\ cp_num_points > MaxNumPoints

====
